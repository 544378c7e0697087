------------------------------- MODULE MQueue -------------------------------
(***************************************************************************)
(* misc/mqueue: sender.c puts one point per character typed on a POSIX        *)
(* message queue, receiver.c takes points with a timeout until SIGINT.         *)
(*                                                                            *)
(* Either program may be started again after it has ended.  A queue outlives   *)
(* the sender that made it, unless that sender came to its mq_unlink: a        *)
(* sender killed before leaves the name, and the points nobody has received,   *)
(* to the next one.  An unlinked queue lives on for the receiver that has it   *)
(* open; when nobody has, it is gone and its points with it.  A receiver       *)
(* killed between mq_timedreceive and printf takes its point along (stdout is  *)
(* a terminal: a line is out once it is printed).  End of input is a           *)
(* character that is not q.                                                    *)
(***************************************************************************)
EXTENDS Integers, Sequences, FiniteSets

CONSTANTS
  QUEUE_SIZE,     \* 6 in the code
  MaxPoints,      \* bound: characters typed
  MaxRuns         \* bound: starts of each program

\* What the model assumes of its constants.
MQueueAssumption == QUEUE_SIZE \in Nat \ {0} /\ MaxPoints \in Nat /\ MaxRuns \in Nat \ {0}

Queues == 1..MaxRuns
NoQueue == 0

VARIABLES
  name,        \* the queue the name stands for, or NoQueue
  made,        \* queues made so far
  queue,       \* what each queue holds; point k belongs to the k-th character
  snd, sq,     \* where the sender is, its qdes
  runs,        \* starts of the sender and of the receiver
  typed, quit,
  unsent,      \* points that came to no queue
  dropped,     \* points gone with their queue
  rcv, rq,     \* where the receiver is, its qdes
  g_continue,
  received,    \* what mq_timedreceive returned, to all receivers
  unprinted    \* points of receivers killed before their printf

queues == <<name, made, queue, dropped>>
sender == <<snd, sq, typed, quit, unsent>>
receiver == <<rcv, rq, g_continue, received, unprinted>>
vars == <<name, made, queue, dropped, snd, sq, runs, typed, quit, unsent,
          rcv, rq, g_continue, received, unprinted>>

Init ==
  /\ name = NoQueue /\ made = 0 /\ queue = [k \in Queues |-> <<>>]
  /\ snd = "idle" /\ sq = NoQueue /\ runs = [s |-> 0, r |-> 0]
  /\ typed = 0 /\ quit = FALSE /\ unsent = {} /\ dropped = {}
  /\ rcv = "idle" /\ rq = NoQueue /\ g_continue = TRUE /\ received = <<>> /\ unprinted = {}

Points(q) == {q[x] : x \in DOMAIN q}

\* Queue k loses its name or a process that has it open.  If it stands for no
\* name and nobody else has it open, the system removes it.
Release(k, others) ==
  IF k = NoQueue \/ k \in others THEN UNCHANGED <<queue, dropped>>
  ELSE queue' = [queue EXCEPT ![k] = <<>>] /\ dropped' = dropped \union Points(queue[k])

-----------------------------------------------------------------------------
(* sender.c *)

\* mq_open with O_CREAT and without O_EXCL
SenderOpens ==
  /\ snd = "idle" /\ runs.s < MaxRuns
  /\ made' = IF name = NoQueue THEN made + 1 ELSE made
  /\ name' = IF name = NoQueue THEN made' ELSE name
  /\ sq' = name'
  /\ runs' = [runs EXCEPT !.s = @ + 1] /\ snd' = "getchar" /\ quit' = FALSE
  /\ UNCHANGED <<queue, dropped, typed, unsent, receiver>>

GetChar ==
  /\ snd = "getchar" /\ typed < MaxPoints
  /\ typed' = typed + 1 /\ quit' \in BOOLEAN /\ snd' = "send"
  /\ UNCHANGED <<queues, sq, runs, unsent, receiver>>

AfterSend == snd' = IF quit THEN "close" ELSE "getchar"

\* mq_send, which waits while the queue is full
Send ==
  /\ snd = "send" /\ Len(queue[sq]) < QUEUE_SIZE
  /\ queue' = [queue EXCEPT ![sq] = Append(@, typed)]
  /\ AfterSend
  /\ UNCHANGED <<name, made, dropped, sq, runs, typed, quit, unsent, receiver>>

\* mq_send fails: perror, and the point is printed as sent all the same
SendFails ==
  /\ snd = "send"
  /\ unsent' = unsent \union {typed}
  /\ AfterSend
  /\ UNCHANGED <<queues, sq, runs, typed, quit, receiver>>

\* mq_close and mq_unlink
Unlink ==
  /\ snd = "close"
  /\ name' = NoQueue /\ snd' = "idle" /\ sq' = NoQueue
  /\ Release(name, {rq})
  /\ UNCHANGED <<made, runs, typed, quit, unsent, receiver>>

\* The sender is killed, or one of the two calls fails: the name stays.
SenderDies ==
  /\ snd # "idle"
  /\ snd' = "idle" /\ sq' = NoQueue
  /\ unsent' = IF snd = "send" THEN unsent \union {typed} ELSE unsent
  /\ UNCHANGED <<queues, runs, typed, quit, receiver>>

-----------------------------------------------------------------------------
(* receiver.c *)

\* mq_open without O_CREAT: without a queue the receiver ends at once
ReceiverOpens ==
  /\ rcv = "idle" /\ runs.r < MaxRuns
  /\ runs' = [runs EXCEPT !.r = @ + 1]
  /\ rq' = name /\ g_continue' = TRUE
  /\ rcv' = IF name = NoQueue THEN "idle" ELSE "signal"
  /\ UNCHANGED <<queues, sender, received, unprinted>>

\* signal(SIGINT, sig_handler)
Handles ==
  /\ rcv = "signal"
  /\ rcv' = "test"
  /\ UNCHANGED <<queues, sender, runs, rq, g_continue, received, unprinted>>

\* while (g_continue); after the loop mq_close and the end
Test ==
  /\ rcv = "test"
  /\ \/ g_continue /\ rcv' = "receive" /\ UNCHANGED <<rq, queue, dropped>>
     \/ ~g_continue /\ rcv' = "idle" /\ rq' = NoQueue /\ Release(rq, {name, sq})
  /\ UNCHANGED <<name, made, sender, runs, g_continue, received, unprinted>>

\* mq_timedreceive returns a point ...
Receive ==
  /\ rcv = "receive" /\ queue[rq] # <<>>
  /\ received' = Append(received, Head(queue[rq]))
  /\ queue' = [queue EXCEPT ![rq] = Tail(@)]
  /\ rcv' = "print"
  /\ UNCHANGED <<name, made, dropped, sender, runs, rq, g_continue, unprinted>>

\* ... and it is printed.
Show ==
  /\ rcv = "print"
  /\ rcv' = "test"
  /\ UNCHANGED <<queues, sender, runs, rq, g_continue, received, unprinted>>

\* Variant: mq_receive, which has no timeout.
WaitsOn == rcv = "receive" /\ queue[rq] = <<>> /\ UNCHANGED vars

\* Five seconds without a point.  SIGINT does not end the call: signal installs
\* the handler with SA_RESTART.
TimesOut ==
  /\ rcv = "receive" /\ queue[rq] = <<>>
  /\ rcv' = "test"
  /\ UNCHANGED <<queues, sender, runs, rq, g_continue, received, unprinted>>

\* SIGINT, once the handler is installed
Sigint ==
  /\ rcv \notin {"idle", "signal"} /\ g_continue
  /\ g_continue' = FALSE
  /\ UNCHANGED <<queues, sender, runs, rcv, rq, received, unprinted>>

\* The receiver is killed, by SIGINT before it has its handler or by any other
\* signal at any time.
ReceiverDies ==
  /\ rcv # "idle"
  /\ rcv' = "idle" /\ rq' = NoQueue /\ Release(rq, {name, sq})
  /\ unprinted' = IF rcv = "print" THEN unprinted \union {received[Len(received)]} ELSE unprinted
  /\ UNCHANGED <<name, made, sender, runs, g_continue, received>>

-----------------------------------------------------------------------------
Receiver == Handles \/ Test \/ Receive \/ Show \/ TimesOut

Next ==
  \/ SenderOpens \/ GetChar \/ Send \/ SendFails \/ Unlink \/ SenderDies
  \/ ReceiverOpens \/ Receiver \/ Sigint \/ ReceiverDies

Spec == Init /\ [][Next]_vars

\* A running receiver runs, and a sender whose point has room sends it; starting
\* the programs, typing and signals are up to the user.
Fairness == WF_vars(Receiver) /\ WF_vars(Send)

-----------------------------------------------------------------------------
(* Properties *)

\* Each variable has its type, and no queue holds more than it may.
TypeOK ==
  /\ name \in Queues \union {NoQueue} /\ made \in 0..MaxRuns
  /\ \A k \in Queues : queue[k] \in Seq(1..MaxPoints) /\ Len(queue[k]) <= QUEUE_SIZE
  /\ snd \in {"idle", "getchar", "send", "close"} /\ rcv \in {"idle", "signal", "test", "receive", "print"}
  /\ {sq, rq} \subseteq Queues \union {NoQueue} /\ typed \in 0..MaxPoints
  /\ unsent \union dropped \union unprinted \subseteq 1..MaxPoints
  /\ received \in Seq(1..MaxPoints)

\* No point is received twice or overtakes another, and what still waits in a
\* queue anybody can open comes after what was received, whoever was killed
\* and started again in between.
InOrder ==
  \A k \in {name, rq} :
    LET all == received \o IF k = NoQueue THEN <<>> ELSE queue[k]
    IN \A x, y \in DOMAIN all : x < y => all[x] < all[y]

\* Every point that was to be sent is received, waits in a queue somebody can
\* still receive it from, or is gone: it came to no queue, or its queue was
\* removed under it.  It is only one of these.
EachPointOnce ==
  /\ \A p \in 1..typed :
       LET places == {received} \union {queue[k] : k \in Queues}
           found == {q \in places : p \in Points(q)}
       IN IF p \in unsent \union dropped \/ (snd = "send" /\ p = typed) THEN found = {}
          ELSE \E q \in found : found = {q}
  /\ unsent \cap dropped = {}
  /\ \A k \in Queues : queue[k] # <<>> => k \in {name, rq}

\* A point that was received is printed, but for one in the hands of each receiver
\* that was killed.
OneLostPerKill ==
  /\ unprinted \subseteq Points(received)
  /\ Cardinality(unprinted) + (IF rcv = "idle" THEN 0 ELSE 1) <= runs.r

\* SIGINT ends a receiver even if nobody sends any more.
StopsOnSigint == ~g_continue ~> rcv = "idle"

\* A sender waiting for room gets it from a receiver of the same queue.
SenderGoesOn == snd = "send" ~> snd # "send" \/ rq # sq

=============================================================================
