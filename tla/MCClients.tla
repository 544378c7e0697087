----------------------------- MODULE MCClients -----------------------------
(***************************************************************************)
(* One run for the programs that talk to a peer and have a queue, a thread or  *)
(* a list of addresses in between: chat/client.c and the list it is built on,  *)
(* select_client.py, the three TCP clients in C, and the two programs of       *)
(* misc/mqueue.  The initial state picks one and only that one runs.           *)
(***************************************************************************)
EXTENDS Integers, Sequences, FiniteSets

CONSTANTS
  MaxMsgs, MaxData,    \* both chat clients
  PipeCap,             \* chat/client.c
  IndCap,              \* select_client.py
  MaxNodes,            \* chat/llist.c
  QUEUE_SIZE, MaxPoints, MaxRuns,     \* misc/mqueue
  MaxAddrs, MaxBytes, RECVSIZE        \* client1.c, client2.c, select_client.c

VARIABLES
  program,
  chead, ctail, csize, ctyped, cmain, mreg, pipe, cloop, lreg, msg, csent,
  handled, cdata, ccame, server, room, con, crowded, nomem,
  smain, styped, queue, mutex, inds, sloop, wlist, sel, ssent, sdata, scame,
  peer, canwrite,
  lhead, ltail, lsize, lnext, lprev, made, freed, destroyed, fault, calls, model, result,
  name, qmade, queues, dropped, snd, sq, runs, qtyped, quit, unsent, rcv, rq, g_continue,
  received, unprinted,
  kind, addrs, i, at, open, met, tsent, closed, got, shown, thr

chat == <<chead, ctail, csize, ctyped, cmain, mreg, pipe, cloop, lreg, msg, csent,
          handled, cdata, ccame, server, room, con, crowded, nomem>>
select == <<smain, styped, queue, mutex, inds, sloop, wlist, sel, ssent, sdata,
            scame, peer, canwrite>>
list == <<lhead, ltail, lsize, lnext, lprev, made, freed, destroyed, fault, calls, model,
          result>>
mqueue == <<name, qmade, queues, dropped, snd, sq, runs, qtyped, quit, unsent, rcv, rq,
            g_continue, received, unprinted>>
tcp == <<kind, addrs, i, at, open, met, tsent, closed, got, shown, thr>>
vars == <<program, chat, select, list, mqueue, tcp>>

Chat == INSTANCE ChatClient WITH
  head <- chead, tail <- ctail, size <- csize, typed <- ctyped, main <- cmain,
  loop <- cloop, sent <- csent, data <- cdata, came <- ccame
Select == INSTANCE SelectClient WITH
  typed <- styped, main <- smain, loop <- sloop, sent <- ssent, data <- sdata,
  came <- scame
List == INSTANCE LList WITH
  head <- lhead, tail <- ltail, size <- lsize, next <- lnext, prev <- lprev

MQ == INSTANCE MQueue WITH made <- qmade, queue <- queues, typed <- qtyped
Tcp == INSTANCE TcpClients WITH sent <- tsent

ASSUME ClientsAssumption ==
  /\ Chat!ChatAssumption /\ Select!SelectAssumption /\ List!LListAssumption
  /\ MQ!MQueueAssumption /\ Tcp!TcpAssumption

Init ==
  /\ program \in {"chat", "select", "list", "mqueue", "tcp"}
  /\ Chat!Init /\ Select!Init /\ List!Init /\ MQ!Init /\ Tcp!Init
  \* one initial state of each program that does not run is enough
  /\ program # "tcp" => kind = "client2"

\* A step of one program leaves the others where they are.
InChat(A) == program = "chat" /\ A /\ UNCHANGED <<program, select, list, mqueue, tcp>>
InSelect(A) == program = "select" /\ A /\ UNCHANGED <<program, chat, list, mqueue, tcp>>
InList(A) == program = "list" /\ A /\ UNCHANGED <<program, chat, select, mqueue, tcp>>
InMQ(A) == program = "mqueue" /\ A /\ UNCHANGED <<program, chat, select, list, tcp>>
InTcp(A) == program = "tcp" /\ A /\ UNCHANGED <<program, chat, select, list, mqueue>>

Next ==
  \/ InChat(Chat!Next) \/ InSelect(Select!Next) \/ InList(List!Next)
  \/ InMQ(MQ!Next) \/ InTcp(Tcp!Next)

\* The fairness of each program, while it runs.
Fairness ==
  /\ WF_vars(InChat(Chat!Main)) /\ WF_vars(InChat(Chat!Loop))
  /\ WF_vars(InChat(Chat!ServerReads))
  /\ WF_vars(InSelect(Select!Main)) /\ WF_vars(InSelect(Select!Loop))
  /\ WF_vars(InSelect(Select!NetDrains))
  /\ SF_vars(InSelect(Select!Send)) /\ SF_vars(InSelect(Select!Append_))
  /\ WF_vars(InMQ(MQ!Receiver)) /\ WF_vars(InMQ(MQ!Send))
  /\ WF_vars(InTcp(Tcp!Main)) /\ WF_vars(InTcp(Tcp!Thread))

FairSpec == Init /\ [][Next]_vars /\ Fairness

-----------------------------------------------------------------------------
(* Properties *)

\* chat/client.c: taking a message from an empty list, and with it the crash in
\* strlen, needs two messages outstanding at once or a malloc that fails.
CrashNeedsCrowd == Chat!TypeOK /\ Chat!CrashNeedsCrowd

\* No message is sent twice or overtakes another, by either chat client or
\* through the message queue, whose programs may be killed and started again;
\* the Python client leaves none out either.  A point put on the queue is received
\* once, still there, or gone with a queue that was removed; of those received,
\* each receiver that is killed keeps at most one to itself.
SentInOrder ==
  /\ Chat!NoDuplicates /\ Select!SentInOrder
  /\ MQ!TypeOK /\ MQ!InOrder /\ MQ!EachPointOnce /\ MQ!OneLostPerKill

\* select_client.py: the event loop never sleeps in select on a message nobody
\* is going to tell it about.
NoStuckMessage == Select!TypeOK /\ Select!NoStuckMessage

\* chat/llist.c: a caller that stays at one end has a stack and, at the front,
\* leaks nothing; it takes removals at both ends, or llist_destroy after additions
\* at the front and removals at the back, to read a node that is freed.
ListSound == List!TypeOK /\ List!OneEndIsStack /\ List!NoUseAfterFree /\ List!FrontFreesAll

\* The TCP clients print what came over one connection, close what they opened
\* but the connections of servers that sent client1.c nothing, and never
\* receive from a descriptor that is closed already.
ConnectionsSound ==
  Tcp!TypeOK /\ Tcp!NoRecvAfterClose /\ Tcp!OneConnection /\ Tcp!LeaksOnlySilent

\* chat/client.c: messages typed one at a time are sent while the server stays
\* and reads and memory lasts, main does not wait for ever for room in the pipe
\* of such a server, and a client asked to stop ends.
ChatProgress == Chat!PacedDelivery /\ Chat!WriteEnds /\ Chat!StopEnds

\* select_client.py: every message typed is sent, unless the user leaves or the
\* connection fails.  misc/mqueue: SIGINT ends a receiver though nobody sends,
\* and a sender waiting for room gets it from a receiver of its queue.
\* select_client.c: the end of its input ends it, whatever the server does.
ClientsGoOn ==
  Select!AllSent /\ MQ!StopsOnSigint /\ MQ!SenderGoesOn /\ Tcp!InputEndEnds

=============================================================================
