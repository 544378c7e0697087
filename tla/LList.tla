-------------------------------- MODULE LList --------------------------------
(***************************************************************************)
(* 00-network-programming/examples/chat/llist.c: a list with head, tail, size *)
(* and nodes linked both ways, used by one thread that calls the operations    *)
(* in any order.  addf writes only next links, addl only prev links, and a     *)
(* removal unlinks nothing: a caller that stays at one end (llist_test.c: the  *)
(* front) has a stack, one that adds at the back and removes at the front (the *)
(* chat client) loses nodes, and one that removes at both ends meets nodes     *)
(* that are freed already.  The early returns for a NULL argument or a failed  *)
(* malloc change nothing.  Memory that was freed is not handed out again.      *)
(***************************************************************************)
EXTENDS Integers, Sequences, FiniteSets

CONSTANT
  MaxNodes     \* bound: calls of llist_addf and llist_addl

\* What the model assumes of its constant.
LListAssumption == MaxNodes \in Nat

NULL == 0
Nodes == 1..MaxNodes

VARIABLES
  head, tail, size,
  next, prev,  \* the links of each node; a node's data is its number
  made,        \* nodes allocated so far
  freed,       \* nodes freed
  destroyed,   \* llist_destroy has run
  fault,       \* a freed node was read: what happens from here on is undefined
  calls,       \* the operations that found something to do so far
  model,       \* what the caller believes to be in the list, front first
  result       \* what the last removal returned

list == <<head, tail, size, next, prev>>
vars == <<head, tail, size, next, prev, made, freed, destroyed, fault, calls, model, result>>

\* llist_init
Init ==
  /\ head = NULL /\ tail = NULL /\ size = 0
  /\ next = [x \in Nodes |-> NULL] /\ prev = [x \in Nodes |-> NULL]
  /\ made = 0 /\ freed = {} /\ destroyed = FALSE /\ fault = FALSE
  /\ calls = {} /\ model = <<>> /\ result = NULL

Alive == ~destroyed /\ ~fault

Called(op) == calls' = calls \union {op}

\* Variant: addf forgets to link the new node.
AddfUnlinked ==
  /\ Alive /\ made < MaxNodes
  /\ made' = made + 1
  /\ head' = made'
  /\ size' = size + 1
  /\ tail' = IF size' = 1 THEN made' ELSE tail
  /\ model' = <<made'>> \o model /\ Called("addf")
  /\ UNCHANGED <<next, prev, freed, destroyed, fault, result>>

\* llist_addf; the old head's prev is not set
Addf ==
  /\ Alive /\ made < MaxNodes
  /\ made' = made + 1
  /\ next' = [next EXCEPT ![made'] = head]
  /\ prev' = [prev EXCEPT ![made'] = NULL]
  /\ head' = made'
  /\ size' = size + 1
  /\ tail' = IF size' = 1 THEN made' ELSE tail
  /\ model' = <<made'>> \o model /\ Called("addf")
  /\ UNCHANGED <<freed, destroyed, fault, result>>

\* llist_addl; the old tail's next is not set
Addl ==
  /\ Alive /\ made < MaxNodes
  /\ made' = made + 1
  /\ next' = [next EXCEPT ![made'] = NULL]
  /\ prev' = [prev EXCEPT ![made'] = tail]
  /\ tail' = made'
  /\ size' = size + 1
  /\ head' = IF size' = 1 THEN made' ELSE head
  /\ model' = Append(model, made') /\ Called("addl")
  /\ UNCHANGED <<freed, destroyed, fault, result>>

\* llist_remf on a list that has a head
Remf ==
  /\ Alive /\ head # NULL /\ head \notin freed
  /\ result' = head
  /\ head' = next[head]
  /\ freed' = freed \union {head}
  /\ size' = size - 1
  /\ tail' = IF size' = 0 THEN NULL ELSE tail
  /\ model' = Tail(model) /\ Called("remf")
  /\ UNCHANGED <<next, prev, made, destroyed, fault>>

\* llist_reml on a list that has a tail
Reml ==
  /\ Alive /\ tail # NULL /\ tail \notin freed
  /\ result' = tail
  /\ tail' = prev[tail]
  /\ freed' = freed \union {tail}
  /\ size' = size - 1
  /\ head' = IF size' = 0 THEN NULL ELSE head
  /\ model' = SubSeq(model, 1, Len(model) - 1) /\ Called("reml")
  /\ UNCHANGED <<next, prev, made, destroyed, fault>>

\* Either of them with a head or a tail that is freed already: the node is read
\* and freed again.
RemoveFreed ==
  /\ Alive
  /\ \/ head \in freed /\ Called("remf")
     \/ tail \in freed /\ Called("reml")
  /\ fault' = TRUE
  /\ UNCHANGED <<list, made, freed, destroyed, model, result>>

\* Either removal on what looks like an empty list returns NULL.
RemoveNothing ==
  /\ Alive /\ (head = NULL \/ tail = NULL)
  /\ result' = NULL
  /\ UNCHANGED <<list, made, freed, destroyed, fault, calls, model>>

\* The nodes on the way from x along the next links: what every set that has x
\* and, with a node, the next one has.
Chain(x) ==
  {y \in Nodes : \A S \in SUBSET Nodes :
     /\ x # NULL => x \in S
     /\ \A z \in S : next[z] # NULL => next[z] \in S
     => y \in S}

\* llist_destroy frees what it finds from head along the next links, a node that
\* is freed already like the others.
Destroy ==
  /\ Alive
  /\ freed' = freed \union Chain(head)
  /\ fault' = (Chain(head) \cap freed # {})
  /\ destroyed' = TRUE
  /\ UNCHANGED <<list, made, calls, model, result>>

Next == Addf \/ Addl \/ Remf \/ Reml \/ RemoveFreed \/ RemoveNothing \/ Destroy

Spec == Init /\ [][Next]_vars

-----------------------------------------------------------------------------
(* Properties *)

\* Each variable has its type: size never goes below zero.
TypeOK ==
  /\ head \in {NULL} \union Nodes /\ tail \in {NULL} \union Nodes
  /\ size \in 0..MaxNodes /\ made \in 0..MaxNodes
  /\ next \in [Nodes -> {NULL} \union Nodes] /\ prev \in [Nodes -> {NULL} \union Nodes]
  /\ freed \subseteq Nodes /\ result \in {NULL} \union Nodes
  /\ destroyed \in BOOLEAN /\ fault \in BOOLEAN
  /\ calls \subseteq {"addf", "addl", "remf", "reml"}

\* The caller has stayed at the front, or at the back.
Front == calls \subseteq {"addf", "remf"}
Back == calls \subseteq {"addl", "reml"}

\* Whatever was called, size is the number of elements the caller has added and
\* not got back.  Used at one end the list is a stack: its ends and the order of
\* the rest along the links of that direction are what the caller expects, so
\* each removal returns the most recent of what is left.
OneEndIsStack ==
  /\ size = Len(model)
  /\ Front =>
       /\ head = IF model = <<>> THEN NULL ELSE model[1]
       /\ \A k \in 1..Len(model) :
            next[model[k]] = IF k = Len(model) THEN NULL ELSE model[k + 1]
  /\ Back =>
       /\ head = IF model = <<>> THEN NULL ELSE model[1]
       /\ tail = IF model = <<>> THEN NULL ELSE model[Len(model)]
       /\ \A k \in 1..Len(model) :
            prev[model[k]] = IF k = 1 THEN NULL ELSE model[k - 1]

\* No node is read after free or freed twice for a caller that stays at one end
\* or never removes at the back.  A caller that removes only at the back but has
\* added at the front meets a freed node in llist_destroy, and nowhere else.
NoUseAfterFree ==
  fault => "reml" \in calls /\ ("remf" \in calls \/ ("addf" \in calls /\ destroyed))

\* Used at the front, as in llist_test.c, the list leaks nothing.
FrontFreesAll == Front /\ destroyed => freed = 1..made

=============================================================================
