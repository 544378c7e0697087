----------------------------- MODULE ChatClient -----------------------------
(***************************************************************************)
(* 00-network-programming/examples/chat/client.c on llist.c: main reads        *)
(* lines, adds each to the back of a list and writes one byte to a pipe; the   *)
(* event loop waits in select for the pipe and the connection, and for every   *)
(* byte takes the front of the list and sends it.  Nothing guards the list:    *)
(* its size is loaded and stored by both threads, and every interleaving of    *)
(* those is a behaviour of the program.                                        *)
(*                                                                            *)
(* llist_addl never links the old tail to the new node, so next of every node  *)
(* is NULL and the list's state is head, tail and size.  Main writes head only  *)
(* when it has loaded a size of 0, which it cannot have while the loop finds a  *)
(* head: reading and clearing head is one step.  sendall is atomic here         *)
(* (WriteLoop looks inside), and waits while the server does not read.  A      *)
(* failed malloc is noticed by llist_addl, but its result is not looked at.     *)
(***************************************************************************)
EXTENDS Integers, Sequences

CONSTANTS
  MaxMsgs,     \* bound: lines typed
  MaxData,     \* bound: blocks the server sends
  PipeCap      \* bytes the pipe holds

\* What the model assumes of its constants.
ChatAssumption == MaxMsgs \in Nat /\ MaxData \in Nat /\ PipeCap \in Nat \ {0}

NULL == 0

VARIABLES
  head, tail, size,
  typed,       \* lines read; line k is message and node k
  main,        \* where main is
  mreg,        \* main's copy of size inside ++list->size
  pipe,        \* bytes in the pipe
  loop,        \* where the event loop is
  lreg,        \* the loop's copy of size inside --list->size
  msg,         \* what llist_remf returned
  sent,        \* messages sent
  handled,     \* messages the event loop is done with
  data, came,  \* blocks to receive, blocks the server has sent
  server,      \* "open" or "closed"
  room,        \* the connection takes another message
  con,         \* "open" or "closed": the client's descriptor
  crowded,     \* two messages have been outstanding at once
  nomem        \* a malloc has failed

queue == <<head, tail, size>>
others == <<handled, data, came, server, room>>
ghosts == <<crowded, nomem>>
vars == <<head, tail, size, typed, main, mreg, pipe, loop, lreg, msg, sent,
          handled, data, came, server, room, con, crowded, nomem>>

Init ==
  /\ head = NULL /\ tail = NULL /\ size = 0
  /\ typed = 0 /\ main = "start" /\ mreg = 0
  /\ pipe = 0 /\ loop = "unborn" /\ lreg = 0 /\ msg = NULL /\ sent = <<>> /\ handled = 0
  /\ data = 0 /\ came = 0 /\ server = "open" /\ room = TRUE /\ con = "closed"
  /\ crowded = FALSE /\ nomem = FALSE

\* The process is gone.
Over == main \in {"returned", "crashed", "killed"}

-----------------------------------------------------------------------------
(* main *)

\* llist_init, pipe, tcpcon_init (each may fail) and pthread_create
Start ==
  /\ main = "start"
  /\ \/ main' = "fgets" /\ loop' = "select" /\ con' = "open"
     \/ main' = "returned" /\ UNCHANGED <<loop, con>>
  /\ UNCHANGED <<queue, typed, mreg, pipe, lreg, msg, sent, others, ghosts>>

\* Variant: the pipe is written before the message is on the list.
ReadLineIndicatesFirst ==
  /\ main = "fgets" /\ typed < MaxMsgs /\ pipe < PipeCap
  /\ typed' = typed + 1
  /\ tail' = typed'
  /\ crowded' = (crowded \/ handled < typed)
  /\ pipe' = pipe + 1
  /\ main' = "load"
  /\ UNCHANGED <<head, size, mreg, loop, lreg, msg, sent, others, con, nomem>>

\* fgets returns a line; llist_addl makes node typed', prev = tail, and
\* list->tail = node
ReadLine ==
  /\ main = "fgets" /\ typed < MaxMsgs
  /\ typed' = typed + 1
  /\ tail' = typed'
  /\ crowded' = (crowded \/ handled < typed)
  /\ main' = "load"
  /\ UNCHANGED <<head, size, mreg, pipe, loop, lreg, msg, sent, others, con, nomem>>

\* The same with a malloc that fails.  For the copy of the line: strncpy writes
\* to NULL.  For the node: llist_addl returns -1, the message is lost, and main
\* goes on to write the byte that announces it.
NoMemory ==
  /\ main = "fgets" /\ typed < MaxMsgs
  /\ typed' = typed + 1
  /\ crowded' = (crowded \/ handled < typed)
  /\ nomem' = TRUE
  /\ main' \in {"crashed", "write"}
  /\ UNCHANGED <<queue, mreg, pipe, loop, lreg, msg, sent, others, con>>

LoadSize ==
  /\ main = "load"
  /\ mreg' = size
  /\ main' = "store"
  /\ UNCHANGED <<queue, typed, pipe, loop, lreg, msg, sent, others, con, ghosts>>

\* if (++list->size == 1) list->head = node
StoreSize ==
  /\ main = "store"
  /\ size' = mreg + 1
  /\ head' = IF size' = 1 THEN typed ELSE head
  /\ main' = "write"
  /\ UNCHANGED <<tail, typed, mreg, pipe, loop, lreg, msg, sent, others, con, ghosts>>

\* write(pipefd[1], "1", 1), which blocks when the pipe is full
WritePipe ==
  /\ main = "write" /\ pipe < PipeCap
  /\ pipe' = pipe + 1
  /\ main' = "fgets"
  /\ UNCHANGED <<queue, typed, mreg, loop, lreg, msg, sent, others, con, ghosts>>

\* End of input or a read error: stop_thread cancels the event loop ...
Cancel ==
  /\ main = "fgets"
  /\ main' \in {"join", "join_error"}
  /\ UNCHANGED <<queue, typed, mreg, pipe, loop, lreg, msg, sent, others, con, ghosts>>

\* ... and joins it; tcpcon_destroy closes the connection unless fgets failed.
Join ==
  /\ main \in {"join", "join_error"} /\ loop = "ended"
  /\ con' = IF main = "join" THEN "closed" ELSE con
  /\ main' = IF main = "join" THEN "close" ELSE "returned"
  /\ UNCHANGED <<queue, typed, mreg, pipe, loop, lreg, msg, sent, others, ghosts>>

Return ==
  /\ main = "close"
  /\ main' = "returned"
  /\ UNCHANGED <<queue, typed, mreg, pipe, loop, lreg, msg, sent, others, con, ghosts>>

-----------------------------------------------------------------------------
(* The event loop *)

LoopAt(loc) == loop = loc /\ ~Over

\* select returns; the pipe is looked at first.  read(pd, rbuf, 1)
WakeForPipe ==
  /\ LoopAt("select") /\ pipe > 0
  /\ pipe' = pipe - 1
  /\ loop' = "remf"
  /\ UNCHANGED <<queue, typed, main, mreg, lreg, msg, sent, others, con, ghosts>>

\* recv: a block is printed; an error or the end of the stream ends the loop.
WakeForData ==
  /\ LoopAt("select") /\ pipe = 0
  /\ \/ data > 0 /\ data' = data - 1 /\ UNCHANGED loop
     \/ server = "closed" /\ loop' = "ended" /\ UNCHANGED data
  /\ UNCHANGED <<queue, typed, main, mreg, pipe, lreg, msg, sent, handled, came, server, room, con, ghosts>>

\* Variant: llist_remf returns the head and leaves it where it is.
TakeHeadKeeps ==
  /\ LoopAt("remf")
  /\ msg' = head
  /\ \/ head = NULL /\ main' = "crashed" /\ UNCHANGED loop
     \/ head # NULL /\ loop' = "load" /\ UNCHANGED main
  /\ UNCHANGED <<queue, typed, mreg, pipe, lreg, sent, others, con, ghosts>>

\* llist_remf: NULL if there is no head, else the head leaves the list; then
\* strlen(msg), which a NULL does not survive
TakeHead ==
  /\ LoopAt("remf")
  /\ msg' = head
  /\ head' = NULL
  /\ \/ head = NULL /\ main' = "crashed" /\ UNCHANGED loop
     \/ head # NULL /\ loop' = "load" /\ UNCHANGED main
  /\ UNCHANGED <<tail, size, typed, mreg, pipe, lreg, sent, others, con, ghosts>>

LoopLoads ==
  /\ LoopAt("load")
  /\ lreg' = size
  /\ loop' = "store"
  /\ UNCHANGED <<queue, typed, main, mreg, pipe, msg, sent, others, con, ghosts>>

\* Variant: the size is not stored.
LoopStoresKeepsSize ==
  /\ LoopAt("store")
  /\ loop' = "send"
  /\ UNCHANGED <<queue, typed, main, mreg, pipe, lreg, msg, sent, others, con, ghosts>>

\* if (--list->size == 0) list->tail = NULL
LoopStores ==
  /\ LoopAt("store")
  /\ size' = lreg - 1
  /\ tail' = IF size' = 0 THEN NULL ELSE tail
  /\ loop' = "send"
  /\ UNCHANGED <<head, typed, main, mreg, pipe, lreg, msg, sent, others, con, ghosts>>

\* sendall and free.  While the server stays, send waits until the connection
\* takes the message.  The result of sendall is not looked at, so after the
\* server has gone a message may vanish, or SIGPIPE kills the process.
Send ==
  /\ LoopAt("send")
  /\ \/ room /\ sent' = Append(sent, msg) /\ room' \in BOOLEAN /\ UNCHANGED main
     \/ server = "closed" /\ main' \in {main, "killed"} /\ UNCHANGED <<sent, room>>
  /\ handled' = handled + 1
  /\ loop' = "select"
  /\ UNCHANGED <<queue, typed, mreg, pipe, lreg, msg, data, came, server, con, ghosts>>

\* The cancellation acts in select, read, recv or send.
Cancelled ==
  /\ LoopAt("select") \/ LoopAt("send")
  /\ main \in {"join", "join_error"}
  /\ loop' = "ended"
  /\ UNCHANGED <<queue, typed, main, mreg, pipe, lreg, msg, sent, others, con, ghosts>>

-----------------------------------------------------------------------------
ServerSends ==
  /\ server = "open" /\ con = "open" /\ came < MaxData
  /\ came' = came + 1 /\ data' = data + 1
  /\ UNCHANGED <<queue, typed, main, mreg, pipe, loop, lreg, msg, sent, handled, server, room, con, ghosts>>

ServerCloses ==
  /\ server = "open" /\ con = "open"
  /\ server' = "closed"
  /\ UNCHANGED <<queue, typed, main, mreg, pipe, loop, lreg, msg, sent, handled, data, came, room, con, ghosts>>

ServerReads ==
  /\ server = "open" /\ con = "open" /\ ~room
  /\ room' = TRUE
  /\ UNCHANGED <<queue, typed, main, mreg, pipe, loop, lreg, msg, sent, handled, data, came, server, con, ghosts>>

Main == LoadSize \/ StoreSize \/ WritePipe \/ Join \/ Return
Loop == WakeForPipe \/ WakeForData \/ TakeHead \/ LoopLoads \/ LoopStores \/ Send \/ Cancelled

Next ==
  \/ Start \/ ReadLine \/ NoMemory \/ Cancel \/ Main \/ Loop
  \/ ServerSends \/ ServerCloses \/ ServerReads

Spec == Init /\ [][Next]_vars

\* Both threads run, and a server that stays goes on reading; the user types and
\* the server sends and closes as they like.
Fairness == WF_vars(Main) /\ WF_vars(Loop) /\ WF_vars(ServerReads)

FairSpec == Spec /\ Fairness

-----------------------------------------------------------------------------
(* Properties *)

\* Each variable has its type: the pipe holds no more than it can.
TypeOK ==
  /\ {head, tail, msg} \subseteq 0..MaxMsgs
  /\ size \in Int /\ mreg \in Int /\ lreg \in Int
  /\ typed \in 0..MaxMsgs /\ pipe \in 0..PipeCap
  /\ main \in {"start", "fgets", "load", "store", "write", "join", "join_error",
               "close", "returned", "crashed", "killed"}
  /\ loop \in {"unborn", "select", "remf", "load", "store", "send", "ended"}
  /\ sent \in Seq(1..MaxMsgs) /\ data \in 0..MaxData /\ came \in 0..MaxData
  /\ server \in {"open", "closed"} /\ con \in {"open", "closed"}
  /\ room \in BOOLEAN /\ crowded \in BOOLEAN /\ nomem \in BOOLEAN /\ handled \in 0..MaxMsgs

\* A user who waits for each message to be sent before typing the next never
\* makes the client take a message from an empty list: the race on size and
\* the missing link need two outstanding messages to do harm.  Only a failed
\* malloc, whose message is announced all the same, crashes it earlier.
CrashNeedsCrowd == main = "crashed" => crowded \/ nomem

\* No message is sent twice or out of order, raced or not.
NoDuplicates == \A j, k \in 1..Len(sent) : j < k => sent[j] < sent[k]

\* As long as messages came one at a time, memory lasts and the server stays and
\* reads, each is sent unless the user ends the program.
PacedDelivery ==
  \A k \in 1..MaxMsgs :
    typed >= k ~> \/ Len(sent) >= k \/ crowded \/ nomem \/ server = "closed"
                  \/ main \in {"join", "join_error", "close", "returned"}

\* While the server stays and reads, main never waits for ever for room in the
\* pipe: the event loop goes on reading it.  (Once the server has closed, nobody
\* does.)
WriteEnds == main = "write" ~> main # "write" \/ server = "closed"

\* Once main has asked the event loop to stop, the program ends.
StopEnds == main \in {"join", "join_error"} ~> Over

=============================================================================
