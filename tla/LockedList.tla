----------------------------- MODULE LockedList -----------------------------
(***************************************************************************)
(* 05-threading/class/linkedlist.c: threads push nodes to the front of one     *)
(* singly linked list, each push under the list's semaphore; main joins them,  *)
(* walks the list and frees it.                                               *)
(***************************************************************************)
EXTENDS Integers, FiniteSets, Sequences

CONSTANTS
  Pushers,    \* the threads that run push_thread (two in the code)
  PUSHES      \* elements each pushes (5 in the code)

\* What the model assumes of its constants.
ListAssumption == IsFiniteSet(Pushers) /\ PUSHES \in Nat \ {0}

\* The node that t allocates for A[i].
Nodes == Pushers \X (1..PUSHES)
NULL == <<>>

VARIABLES
  head, tail, size,   \* of the list
  next,               \* of each node
  sem,                \* value of list.sem
  at, i,              \* each thread's place and loop index
  made,               \* nodes malloc has given out
  main, node,         \* main's place and its walk
  walked              \* what main has printed

vars == <<head, tail, size, next, sem, at, i, made, main, node, walked>>

\* single_list_init and both pthread_create
Init ==
  /\ head = NULL /\ tail = NULL /\ size = 0
  /\ next = [x \in Nodes |-> NULL]
  /\ sem = 1
  /\ at = [t \in Pushers |-> "alloc"] /\ i = [t \in Pushers |-> 1]
  /\ made = {}
  /\ main = "join" /\ node = NULL /\ walked = <<>>

Mine(t) == <<t, i[t]>>
Goto(t, place) == at' = [at EXCEPT ![t] = place]

\* push_front has returned and sleep(1) is over; the loop goes on or ends.
NextPush(t) ==
  /\ i' = [i EXCEPT ![t] = @ + 1]
  /\ Goto(t, IF i[t] = PUSHES THEN "ended" ELSE "alloc")

\* malloc
Alloc(t) ==
  /\ at[t] = "alloc" /\ Goto(t, "wait")
  /\ made' = made \union {Mine(t)}
  /\ UNCHANGED <<head, tail, size, next, sem, i, main, node, walked>>

\* malloc fails: push_front returns 0, which push_thread ignores.
AllocFails(t) ==
  /\ at[t] = "alloc" /\ NextPush(t)
  /\ UNCHANGED <<head, tail, size, next, sem, made, main, node, walked>>

\* sem_wait
SemWait(t) ==
  /\ at[t] = "wait" /\ sem > 0
  /\ sem' = sem - 1 /\ Goto(t, "link")
  /\ UNCHANGED <<head, tail, size, next, i, made, main, node, walked>>

\* tmp->next = list->head
Link(t) ==
  /\ at[t] = "link" /\ Goto(t, "head")
  /\ next' = [next EXCEPT ![Mine(t)] = head]
  /\ UNCHANGED <<head, tail, size, sem, i, made, main, node, walked>>

\* list->head = tmp
SetHead(t) ==
  /\ at[t] = "head" /\ Goto(t, "count")
  /\ head' = Mine(t)
  /\ UNCHANGED <<tail, size, next, sem, i, made, main, node, walked>>

\* if(list->size == 0) list->tail = tmp; ++(list->size)
Count(t) ==
  /\ at[t] = "count" /\ Goto(t, "post")
  /\ tail' = IF size = 0 THEN Mine(t) ELSE tail
  /\ size' = size + 1
  /\ UNCHANGED <<head, next, sem, i, made, main, node, walked>>

\* sem_post; push_front returns 1
SemPost(t) ==
  /\ at[t] = "post" /\ sem' = sem + 1 /\ NextPush(t)
  /\ UNCHANGED <<head, tail, size, next, made, main, node, walked>>

\* Both pthread_join return.
Join ==
  /\ main = "join" /\ \A t \in Pushers : at[t] = "ended"
  /\ main' = "walk" /\ node' = head
  /\ UNCHANGED <<head, tail, size, next, sem, at, i, made, walked>>

\* main prints one element; at the end it goes back to the head to free.
Walk ==
  /\ main = "walk"
  /\ IF node # NULL
     THEN node' = next[node] /\ walked' = Append(walked, node) /\ main' = main
     ELSE node' = head /\ walked' = walked /\ main' = "free"
  /\ UNCHANGED <<head, tail, size, next, sem, at, i, made>>

\* single_list_free takes next before it frees the node; main then ends.
Free ==
  /\ main = "free"
  /\ IF node # NULL THEN made' = made \ {node} /\ node' = next[node] /\ main' = main
                    ELSE made' = made /\ node' = node /\ main' = "ended"
  /\ UNCHANGED <<head, tail, size, next, sem, at, i, walked>>

Ended == main = "ended" /\ UNCHANGED vars

Pusher(t) ==
  \/ Alloc(t) \/ AllocFails(t) \/ SemWait(t) \/ Link(t) \/ SetHead(t) \/ Count(t)
  \/ SemPost(t)
Main == Join \/ Walk \/ Free

Next == (\E t \in Pushers : Pusher(t)) \/ Main \/ Ended

Spec == Init /\ [][Next]_vars

-----------------------------------------------------------------------------
(* Properties *)

\* When main has walked the list it has seen every node allocated once, each
\* thread's in the reverse of the order it pushed them, as many as size counts;
\* tail is the last, and afterwards all of them are freed.
NoPushLost ==
  /\ main = "free" =>
       /\ Len(walked) = size
       /\ made \subseteq {walked[k] : k \in 1..Len(walked)}
       /\ \A j, k \in 1..Len(walked) :
            j < k => walked[j] # walked[k]
                     /\ (walked[j][1] = walked[k][1] => walked[j][2] > walked[k][2])
       /\ size > 0 => tail = walked[size]
  /\ main = "ended" => made = {}

\* Main ends.
Termination == <>(main = "ended")

=============================================================================
