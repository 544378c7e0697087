-------------------------------- MODULE Fifo --------------------------------
(***************************************************************************)
(* What a bounded buffer between one producer and one consumer promises:    *)
(* the items 0, 1, ..., Count - 1 pass through a queue of bounded length,    *)
(* none lost, none twice, in order.                                          *)
(***************************************************************************)
EXTENDS Integers, Sequences

CONSTANTS Capacity, Count

VARIABLES
  queue,       \* the items under way
  sent,        \* how many the producer has put
  received     \* what the consumer has got, in order

vars == <<queue, sent, received>>

Init == queue = <<>> /\ sent = 0 /\ received = <<>>

Send ==
  /\ sent < Count
  /\ Len(queue) < Capacity
  /\ queue' = Append(queue, sent)
  /\ sent' = sent + 1
  /\ UNCHANGED received

Receive ==
  /\ queue # <<>>
  /\ received' = Append(received, Head(queue))
  /\ queue' = Tail(queue)
  /\ UNCHANGED sent

Next == Send \/ Receive

Spec == Init /\ [][Next]_vars

=============================================================================
