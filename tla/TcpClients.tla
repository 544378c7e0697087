----------------------------- MODULE TcpClients -----------------------------
(***************************************************************************)
(* The TCP clients of 00-network-programming/examples written in C:           *)
(*   client1   client1.c: tries one address after the other until a server     *)
(*             gives it a block of data                                        *)
(*   client2   client2.c: connects, sends a message, receives one block        *)
(*   select    select_client.c: a thread receives and prints while main reads   *)
(*             standard input; at its end main cancels and joins the thread    *)
(* What a server sends is the bytes 1, 2, ...; sending is atomic here          *)
(* (WriteLoop looks inside client_sendall).                                    *)
(***************************************************************************)
EXTENDS Integers, FiniteSets

CONSTANTS
  MaxAddrs,     \* bound: addresses getaddrinfo finds for client1
  MaxBytes,     \* bound: bytes a server sends
  RECVSIZE      \* 512 in the code

\* What the model assumes of its constants.
TcpAssumption == MaxAddrs \in Nat \ {0} /\ MaxBytes \in Nat /\ RECVSIZE \in Nat \ {0}

VARIABLES
  kind, addrs,     \* the client, the length of its address list
  i,               \* the address main is at
  at,              \* where main is; "ok" and "failed" when it has returned
  open,            \* addresses with an open descriptor
  met,             \* addresses connect succeeded for
  sent,            \* bytes the server of address i has sent
  closed,          \* that server has closed the connection
  got,             \* bytes recv has returned since connect
  shown,           \* bytes printed
  thr              \* the thread of select: "none", "recv", "print", "ended", "stopped"

server == <<sent, closed>>
vars == <<kind, addrs, i, at, open, met, sent, closed, got, shown, thr>>

Init ==
  /\ kind \in {"client1", "client2", "select"}
  /\ addrs \in IF kind = "client1" THEN 1..MaxAddrs ELSE {1}
  /\ i = 1 /\ at = "socket" /\ open = {} /\ met = {}
  /\ sent = 0 /\ closed = FALSE /\ got = 0 /\ shown = 0 /\ thr = "none"

\* client1: ptr->ai_next, and the failure behind the last; the others return 1.
NextAddress ==
  /\ i' = i + 1
  /\ at' = IF i < addrs THEN "socket" ELSE "failed"

\* socket
Socket ==
  /\ at = "socket"
  /\ \/ at' = "connect" /\ open' = open \union {i} /\ UNCHANGED i
     \/ NextAddress /\ UNCHANGED open
  /\ UNCHANGED <<kind, addrs, met, server, got, shown, thr>>

\* connect to a server that is there
Connect ==
  /\ at = "connect"
  /\ met' = met \union {i}
  /\ sent' = 0 /\ closed' = FALSE /\ got' = 0
  /\ at' = CASE kind = "client1" -> "recv" [] kind = "client2" -> "send" [] OTHER -> "fgets"
  /\ thr' = IF kind = "select" THEN "recv" ELSE "none"
  /\ UNCHANGED <<kind, addrs, i, open, shown>>

\* Only client1 closes the descriptor.
ConnectFails ==
  /\ at = "connect"
  /\ open' = IF kind = "client1" THEN open \ {i} ELSE open
  /\ NextAddress
  /\ UNCHANGED <<kind, addrs, met, server, got, shown, thr>>

\* client_sendall
Send ==
  /\ at = "send"
  /\ at' \in {"recv", "failed"}
  /\ UNCHANGED <<kind, addrs, i, open, met, server, got, shown, thr>>

-----------------------------------------------------------------------------
(* One recv of client1 and client2 *)

\* (a close that fails changes nothing but the exit status of client2)
Recv(m) ==
  /\ at = "recv" /\ m \in 1..RECVSIZE /\ got + m <= sent
  /\ got' = got + m /\ shown' = shown + m
  /\ at' = "ok" /\ open' = open \ {i}
  /\ UNCHANGED <<kind, addrs, i, met, server, thr>>

\* recv gives 0.  client1 goes to the next address and leaves the descriptor
\* open; client2 prints an empty string and closes.
RecvEnd ==
  /\ at = "recv" /\ closed /\ got = sent
  /\ \/ kind = "client1" /\ NextAddress /\ UNCHANGED open
     \/ kind = "client2" /\ at' = "ok" /\ open' = open \ {i} /\ UNCHANGED i
  /\ UNCHANGED <<kind, addrs, met, server, got, shown, thr>>

\* recv gives -1, an interrupted one included.
RecvFails ==
  /\ at = "recv"
  /\ NextAddress
  /\ UNCHANGED <<kind, addrs, open, met, server, got, shown, thr>>

-----------------------------------------------------------------------------
(* The thread and main of select_client.c *)

ThreadRecv(m) ==
  /\ thr = "recv" /\ at \notin {"ok", "failed"} /\ m \in 1..RECVSIZE /\ got + m <= sent
  /\ got' = got + m /\ thr' = "print"
  /\ UNCHANGED <<kind, addrs, i, at, open, met, server, shown>>

ThreadPrints ==
  /\ thr = "print" /\ at \notin {"ok", "failed"}
  /\ shown' = got /\ thr' = "recv"
  /\ UNCHANGED <<kind, addrs, i, at, open, met, server, got>>

\* recv gives 0: the thread ends, main goes on reading lines.
ThreadEnds ==
  /\ thr = "recv" /\ at \notin {"ok", "failed"} /\ closed /\ got = sent
  /\ thr' = "ended"
  /\ UNCHANGED <<kind, addrs, i, at, open, met, server, got, shown>>

\* recv gives -1 ...
ThreadFails ==
  /\ thr = "recv" /\ at \notin {"ok", "failed"}
  /\ thr' = "stopped"
  /\ UNCHANGED <<kind, addrs, i, at, open, met, server, got, shown>>

\* ... or the cancellation acts, in recv or in printf.
ThreadCancelled ==
  /\ thr \in {"recv", "print"} /\ at \in {"stop", "stop_error"}
  /\ thr' = "stopped"
  /\ UNCHANGED <<kind, addrs, i, at, open, met, server, got, shown>>

\* fgets gives NULL at the end of input or after an error: pthread_cancel
InputEnds ==
  /\ at = "fgets"
  /\ at' \in {"stop", "stop_error"}
  /\ UNCHANGED <<kind, addrs, i, open, met, server, got, shown, thr>>

\* Variant: the connection is closed without waiting for the thread.
DestroyUnjoined ==
  /\ at \in {"stop", "stop_error"}
  /\ at' = IF at = "stop" THEN "destroyed" ELSE "failed"
  /\ open' = IF at = "stop" THEN {} ELSE open
  /\ UNCHANGED <<kind, addrs, i, met, server, got, shown, thr>>

\* pthread_join, then tcpcon_destroy unless fgets failed
Destroy ==
  /\ at \in {"stop", "stop_error"} /\ thr \in {"ended", "stopped"}
  /\ at' = IF at = "stop" THEN "destroyed" ELSE "failed"
  /\ open' = IF at = "stop" THEN {} ELSE open
  /\ UNCHANGED <<kind, addrs, i, met, server, got, shown, thr>>

Return ==
  /\ at = "destroyed"
  /\ at' = "ok"
  /\ UNCHANGED <<kind, addrs, i, open, met, server, got, shown, thr>>

-----------------------------------------------------------------------------
(* The server main is connected to *)

Listening == i \in met /\ at \notin {"ok", "failed"} /\ ~closed

ServerSends ==
  /\ Listening /\ sent < MaxBytes
  /\ sent' = sent + 1
  /\ UNCHANGED <<kind, addrs, i, at, open, met, closed, got, shown, thr>>

ServerCloses ==
  /\ Listening
  /\ closed' = TRUE
  /\ UNCHANGED <<kind, addrs, i, at, open, met, sent, got, shown, thr>>

Main == Socket \/ Connect \/ Send \/ (\E m \in 1..RECVSIZE : Recv(m)) \/ RecvEnd \/ Destroy \/ Return
Thread == (\E m \in 1..RECVSIZE : ThreadRecv(m)) \/ ThreadPrints \/ ThreadEnds \/ ThreadCancelled

Next ==
  \/ Main \/ ConnectFails \/ RecvFails \/ Thread \/ ThreadFails \/ InputEnds
  \/ ServerSends \/ ServerCloses

Spec == Init /\ [][Next]_vars

\* Both threads run; calls need not fail, and servers and users do as they like.
Fairness == WF_vars(Main) /\ WF_vars(Thread)

-----------------------------------------------------------------------------
(* Properties *)

\* Each variable has its type.
TypeOK ==
  /\ kind \in {"client1", "client2", "select"} /\ addrs \in 1..MaxAddrs /\ i \in 1..addrs + 1
  /\ at \in {"socket", "connect", "send", "recv", "fgets", "stop", "stop_error", "destroyed", "ok", "failed"}
  /\ met \subseteq 1..addrs /\ open \subseteq 1..addrs
  /\ sent \in 0..MaxBytes /\ closed \in BOOLEAN /\ got \in 0..sent /\ shown \in Nat
  /\ thr \in {"none", "recv", "print", "ended", "stopped"}

\* The thread never calls recv on a descriptor main has closed.
NoRecvAfterClose == thr \in {"recv", "print"} => i \in open

\* A client that ends well has printed what came over one connection and
\* nothing else: client1 and client2 one block, the thread all the server
\* sent if the server was the first to close; a client1 that fails has
\* printed nothing.
OneConnection ==
  /\ kind = "client1" => shown = IF at = "ok" THEN got ELSE 0
  /\ kind = "client1" /\ at = "ok" => shown > 0
  /\ kind = "client2" => shown = got
  /\ kind = "select" => shown <= got /\ (thr = "ended" => shown = sent)

\* The descriptors left open are those of servers that gave client1 nothing,
\* one for each, and that of a client on its way to exit.
LeaksOnlySilent ==
  at = "ok" => open = IF kind = "client1" THEN met \ {i} ELSE {}

\* After the end of input select_client.c ends, whatever the server does.
InputEndEnds == at \in {"stop", "stop_error"} ~> at \in {"ok", "failed"}

=============================================================================
