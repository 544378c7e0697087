---------------------------- MODULE SelectClient ----------------------------
(***************************************************************************)
(* 00-network-programming/examples/select_client.py: the main thread puts     *)
(* messages on a queue guarded by a mutex and wakes an event loop, which       *)
(* sleeps in select, through a socket pair used as an indicator.               *)
(***************************************************************************)
EXTENDS Integers, Sequences

CONSTANTS
  MaxMsgs,     \* bound: lines the user types
  MaxData,     \* bound: blocks the peer sends
  IndCap       \* bytes the indicator socket can hold

\* What the model assumes of its constants.
SelectAssumption ==
  MaxMsgs \in Nat /\ MaxData \in Nat /\ IndCap \in Nat \ {0}

VARIABLES
  main,        \* start, input, append, indicate, exited, crashed
  typed,       \* messages typed so far; message k is the k-th
  queue,       \* write_queue
  mutex,       \* TRUE while the event loop drains under write_queue_mutex
  inds,        \* bytes in the indicator
  loop,        \* where loop_forever is
  wlist,       \* sock is in wlist
  sel,         \* what select returned
  sent,        \* messages handed to the peer
  data,        \* blocks from the peer not yet received
  came,        \* blocks the peer has sent
  peer,        \* "open" or "closed"
  canwrite     \* the kernel has room for a message

net == <<data, came, peer, canwrite>>
mainvars == <<main, typed>>
loopvars == <<loop, wlist, sel, mutex>>
vars == <<main, typed, queue, mutex, inds, loop, wlist, sel, sent, data, came,
          peer, canwrite>>

NothingReady == [sock |-> FALSE, ind |-> FALSE, out |-> FALSE]

Init ==
  /\ main = "start" /\ typed = 0 /\ queue = <<>> /\ mutex = FALSE /\ inds = 0
  /\ loop = "check" /\ wlist = FALSE /\ sel = NothingReady
  /\ sent = <<>> /\ data = 0 /\ came = 0 /\ peer = "open" /\ canwrite = TRUE

-----------------------------------------------------------------------------
(* The main thread *)

\* create_ind_pair: the non-blocking connect normally reports EINPROGRESS; if
\* it succeeds at once, print(e) raises a NameError.  create_connection may
\* fail as well.
Start ==
  /\ main = "start"
  /\ main' \in {"input", "crashed"}
  /\ UNCHANGED <<typed, queue, inds, loopvars, sent, net>>

\* input() returns a line.
Input ==
  /\ main = "input" /\ typed < MaxMsgs
  /\ typed' = typed + 1
  /\ main' = "append"
  /\ UNCHANGED <<queue, inds, loopvars, sent, net>>

\* EOFError or KeyboardInterrupt: sys.exit, and the daemon thread dies with it.
Exit ==
  /\ main = "input"
  /\ main' = "exited"
  /\ UNCHANGED <<typed, queue, inds, loopvars, sent, net>>

\* with write_queue_mutex: write_queue.append
Append_ ==
  /\ main = "append" /\ ~mutex
  /\ queue' = Append(queue, typed)
  /\ main' = "indicate"
  /\ UNCHANGED <<typed, inds, loopvars, sent, net>>

\* Variant: the indicator is forgotten.
IndicateForgotten ==
  /\ main = "indicate"
  /\ main' = "input"
  /\ UNCHANGED <<typed, queue, inds, loopvars, sent, net>>

\* write_ind.send(b"0"); a full indicator gives EAGAIN, which is only reported.
Indicate ==
  /\ main = "indicate"
  /\ inds' = IF inds < IndCap THEN inds + 1 ELSE inds
  /\ main' = "input"
  /\ UNCHANGED <<typed, queue, loopvars, sent, net>>

-----------------------------------------------------------------------------
(* The event loop; it runs as long as the main thread has not exited *)

LoopAt(loc) == loop = loc /\ main \notin {"start", "crashed", "exited"}

\* wlist = [sock] if the queue is not empty
Check ==
  /\ LoopAt("check") /\ ~mutex
  /\ wlist' = (queue # <<>>)
  /\ loop' = "select"
  /\ UNCHANGED <<mainvars, queue, mutex, inds, sel, sent, net>>

\* select returns what is ready, and something is.
Select ==
  /\ LoopAt("select")
  /\ sel' = [sock |-> data > 0 \/ peer = "closed", ind |-> inds > 0,
             out |-> wlist /\ canwrite]
  /\ sel' # NothingReady
  /\ loop' = "recv"
  /\ UNCHANGED <<mainvars, queue, mutex, inds, wlist, sent, net>>

\* if sock in selected[0]: at the end of the stream recv returns b"" for ever
Recv ==
  /\ LoopAt("recv")
  /\ data' = IF sel.sock /\ data > 0 THEN data - 1 ELSE data
  /\ loop' = "ind"
  /\ UNCHANGED <<mainvars, queue, mutex, inds, wlist, sel, sent, came, peer, canwrite>>

\* recv raises after a reset: the thread dies.
RecvFails ==
  /\ LoopAt("recv") /\ sel.sock /\ peer = "closed"
  /\ loop' = "dead"
  /\ UNCHANGED <<mainvars, queue, mutex, inds, wlist, sel, sent, net>>

\* if read_ind in selected[0] and sock not in selected[1]: one byte is taken
\* from the indicator and the queue is drained without asking select again
TakeIndicator ==
  /\ LoopAt("ind")
  /\ LET wake == sel.ind /\ ~sel.out
     IN /\ inds' = IF wake THEN inds - 1 ELSE inds
        /\ loop' = IF wake \/ sel.out THEN "lock" ELSE "check"
  /\ UNCHANGED <<mainvars, queue, mutex, wlist, sel, sent, net>>

\* if sock in selected[1]: with write_queue_mutex
LockQueue ==
  /\ LoopAt("lock") /\ ~mutex
  /\ mutex' = TRUE
  /\ loop' = "drain"
  /\ UNCHANGED <<mainvars, queue, inds, wlist, sel, sent, net>>

\* popleft and sendall, which blocks, mutex held, until there is room
Send ==
  /\ LoopAt("drain") /\ queue # <<>> /\ canwrite
  /\ sent' = Append(sent, Head(queue))
  /\ queue' = Tail(queue)
  /\ UNCHANGED <<mainvars, mutex, inds, loop, wlist, sel, net>>

\* sendall raises: the popped message is lost, the with statement releases the
\* mutex, the thread dies.
SendFails ==
  /\ LoopAt("drain") /\ queue # <<>> /\ peer = "closed"
  /\ queue' = Tail(queue)
  /\ mutex' = FALSE
  /\ loop' = "dead"
  /\ UNCHANGED <<mainvars, inds, wlist, sel, sent, net>>

\* The queue is empty: release the mutex.
Drained ==
  /\ LoopAt("drain") /\ queue = <<>>
  /\ mutex' = FALSE
  /\ loop' = "check"
  /\ UNCHANGED <<mainvars, queue, inds, wlist, sel, sent, net>>

-----------------------------------------------------------------------------
(* The peer and the network *)

PeerSends ==
  /\ peer = "open" /\ came < MaxData
  /\ came' = came + 1 /\ data' = data + 1
  /\ UNCHANGED <<mainvars, queue, inds, loopvars, sent, peer, canwrite>>

PeerCloses ==
  /\ peer = "open" /\ peer' = "closed"
  /\ UNCHANGED <<mainvars, queue, inds, loopvars, sent, data, came, canwrite>>

NetFills ==
  /\ canwrite /\ canwrite' = FALSE
  /\ UNCHANGED <<mainvars, queue, inds, loopvars, sent, data, came, peer>>

NetDrains ==
  /\ ~canwrite /\ canwrite' = TRUE
  /\ UNCHANGED <<mainvars, queue, inds, loopvars, sent, data, came, peer>>

Main == Append_ \/ Indicate
Loop == Check \/ Select \/ Recv \/ TakeIndicator \/ LockQueue \/ Send \/ Drained

Next == \/ Start \/ Input \/ Exit \/ Main \/ Loop \/ RecvFails \/ SendFails
        \/ PeerSends \/ PeerCloses \/ NetFills \/ NetDrains

Spec == Init /\ [][Next]_vars

\* Both threads run; the user need not type.  The peer reads now and then, so
\* a full socket drains and a sendall that waits for room gets some.
Fairness ==
  /\ WF_vars(Main) /\ WF_vars(Loop) /\ WF_vars(NetDrains)
  /\ SF_vars(Send) /\ SF_vars(Append_)

FairSpec == Spec /\ Fairness

-----------------------------------------------------------------------------
(* Properties *)

\* Each variable has its type: the indicator holds no more than it can.
TypeOK ==
  /\ main \in {"start", "input", "append", "indicate", "exited", "crashed"}
  /\ typed \in 0..MaxMsgs
  /\ queue \in Seq(1..MaxMsgs) /\ sent \in Seq(1..MaxMsgs)
  /\ mutex \in BOOLEAN /\ wlist \in BOOLEAN /\ canwrite \in BOOLEAN
  /\ inds \in 0..IndCap
  /\ loop \in {"check", "select", "recv", "ind", "lock", "drain", "dead"}
  /\ sel \in [{"sock", "ind", "out"} -> BOOLEAN]
  /\ data \in 0..MaxData /\ came \in 0..MaxData
  /\ peer \in {"open", "closed"}

\* The loop never sleeps on a message: when it is in select without watching
\* for room in the socket and the queue is not empty, the indicator has a byte
\* or the main thread is about to write one.  A full indicator, whose byte is
\* dropped, and the stale bytes the loop leaves behind are no exception.
NoStuckMessage ==
  loop = "select" /\ ~wlist /\ queue # <<>> => inds > 0 \/ main = "indicate"

\* What the peer gets is what was typed, in order, nothing missing in between
\* and nothing twice.
SentInOrder == \A k \in 1..Len(sent) : sent[k] = k

\* Every message typed is sent, unless the user leaves or the thread died of
\* an error of the connection.
AllSent ==
  \A k \in 1..MaxMsgs :
    typed >= k ~> (Len(sent) >= k \/ main = "exited" \/ loop = "dead")

=============================================================================
