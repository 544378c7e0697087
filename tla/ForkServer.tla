----------------------------- MODULE ForkServer -----------------------------
(***************************************************************************)
(* 00-network-programming/examples/server.c: a TCP server that forks a child  *)
(* per connection; the child greets the client, the parent closes its copy of *)
(* the descriptor, and a SIGCHLD handler reaps the children.                  *)
(*                                                                            *)
(* A descriptor is open as long as one process has it open, fork copies the   *)
(* parent's descriptors, and a pending SIGCHLD is a flag: children that die   *)
(* while it is set, or blocked because the handler runs, are not counted.     *)
(***************************************************************************)
EXTENDS Integers, FiniteSets

CONSTANTS
  Clients,     \* clients that may connect, once each
  NoConn,      \* the -1 of a failed accept
  MaxFails     \* bound: calls of accept that fail

\* What the model assumes of its constants.
ForkAssumption ==
  IsFiniteSet(Clients) /\ NoConn \notin Clients /\ MaxFails \in Nat

Conns == Clients \union {NoConn}
Kids == 1..Cardinality(Clients) + MaxFails

VARIABLES
  client,     \* idle, queued in the backlog, or accepted
  pc,         \* where main is
  cd,         \* main's local: the connection just accepted
  fds,        \* connections the parent has open
  kid,        \* where each child is; "none" if not forked yet
  kidcd,      \* cd in each child
  kidfds,     \* connections each child has open
  forked,     \* children forked so far
  fails,      \* calls of accept that have failed
  pending,    \* SIGCHLD is pending
  handler,    \* sigchld_handler is running in the parent
  greeted,    \* greetings each client has been sent
  unserved    \* clients dropped because fork or send failed

main == <<pc, cd, fds>>
kids == <<kid, kidcd, kidfds, forked>>
signals == <<pending, handler>>
vars == <<client, pc, cd, fds, kid, kidcd, kidfds, forked, fails, pending,
          handler, greeted, unserved>>

Init ==
  /\ client = [c \in Clients |-> "idle"]
  /\ pc = "setup" /\ cd = NoConn /\ fds = {}
  /\ kid = [k \in Kids |-> "none"]
  /\ kidcd = [k \in Kids |-> NoConn]
  /\ kidfds = [k \in Kids |-> {}]
  /\ forked = 0 /\ fails = 0
  /\ pending = FALSE /\ handler = FALSE
  /\ greeted = [c \in Clients |-> 0]
  /\ unserved = {}

\* main runs unless the handler has interrupted it.
MainAt(loc) == pc = loc /\ ~handler

-----------------------------------------------------------------------------
(* main *)

\* socket, setsockopt, bind, listen and sigaction: any of them may fail.
Setup ==
  /\ MainAt("setup")
  /\ pc' \in {"accept", "exited"}
  /\ UNCHANGED <<client, cd, fds, kids, fails, signals, greeted, unserved>>

\* A client connects to the listening socket; the kernel queues it.
Connect(c) ==
  /\ client[c] = "idle" /\ pc \notin {"setup", "exited"}
  /\ client' = [client EXCEPT ![c] = "queued"]
  /\ UNCHANGED <<main, kids, fails, signals, greeted, unserved>>

\* accept returns a connection.  It is restarted after the handler
\* (SA_RESTART), so a signal is not an error.
Accept(c) ==
  /\ MainAt("accept") /\ client[c] = "queued"
  /\ client' = [client EXCEPT ![c] = "accepted"]
  /\ cd' = c
  /\ fds' = fds \union {c}
  /\ pc' = "fork"
  /\ UNCHANGED <<kids, fails, signals, greeted, unserved>>

\* accept fails; its result is not looked at.
AcceptFails ==
  /\ MainAt("accept") /\ fails < MaxFails
  /\ fails' = fails + 1
  /\ cd' = NoConn
  /\ pc' = "fork"
  /\ UNCHANGED <<client, fds, kids, signals, greeted, unserved>>

\* fork: the child starts with all the descriptors of the parent.
Fork ==
  /\ MainAt("fork")
  /\ forked' = forked + 1
  /\ kid' = [kid EXCEPT ![forked'] = "send"]
  /\ kidcd' = [kidcd EXCEPT ![forked'] = cd]
  /\ kidfds' = [kidfds EXCEPT ![forked'] = fds]
  /\ pc' = "close"
  /\ UNCHANGED <<client, cd, fds, fails, signals, greeted, unserved>>

\* fork fails: perror, and the same try_close(cd) as in the parent.
ForkFails ==
  /\ MainAt("fork")
  /\ unserved' = unserved \union ({cd} \ {NoConn})
  /\ pc' = "close"
  /\ UNCHANGED <<client, cd, fds, kids, fails, signals, greeted>>

\* Variant: only the child closes the connection.
ParentKeeps ==
  /\ MainAt("close")
  /\ pc' = "accept"
  /\ UNCHANGED <<client, cd, fds, kids, fails, signals, greeted, unserved>>

\* try_close(cd): "Prevents the parent from keeping the connection alive"
ParentCloses ==
  /\ MainAt("close")
  /\ fds' = fds \ {cd}
  /\ pc' = "accept"
  /\ UNCHANGED <<client, cd, kids, fails, signals, greeted, unserved>>

-----------------------------------------------------------------------------
(* A child *)

\* Variant: the greeting is sent again when the first send fails.
KidRetries(k) ==
  /\ kid[k] = "send"
  /\ LET c == kidcd[k]
     IN \/ /\ c # NoConn
           /\ greeted' = [greeted EXCEPT ![c] = @ + 1]
           /\ kid' \in {kid, [kid EXCEPT ![k] = "close"]}
           /\ UNCHANGED unserved
        \/ /\ unserved' = unserved \union ({c} \ {NoConn})
           /\ kid' = [kid EXCEPT ![k] = "close"]
           /\ UNCHANGED greeted
  /\ UNCHANGED <<client, main, kidcd, kidfds, forked, fails, signals>>

\* try_close(sd) and send, which may fail and must fail without a connection.
KidSends(k) ==
  /\ kid[k] = "send"
  /\ LET c == kidcd[k]
     IN \/ /\ c # NoConn
           /\ greeted' = [greeted EXCEPT ![c] = @ + 1]
           /\ UNCHANGED unserved
        \/ /\ unserved' = unserved \union ({c} \ {NoConn})
           /\ UNCHANGED greeted
  /\ kid' = [kid EXCEPT ![k] = "close"]
  /\ UNCHANGED <<client, main, kidcd, kidfds, forked, fails, signals>>

\* The client has gone: SIGPIPE kills the child inside send.
KidKilled(k) ==
  /\ kid[k] = "send" /\ kidcd[k] # NoConn
  /\ unserved' = unserved \union {kidcd[k]}
  /\ kid' = [kid EXCEPT ![k] = "zombie"]
  /\ kidfds' = [kidfds EXCEPT ![k] = {}]
  /\ pending' = TRUE
  /\ UNCHANGED <<client, main, kidcd, forked, fails, handler, greeted>>

\* try_close(cd)
KidCloses(k) ==
  /\ kid[k] = "close"
  /\ kidfds' = [kidfds EXCEPT ![k] = @ \ {kidcd[k]}]
  /\ kid' = [kid EXCEPT ![k] = "exit"]
  /\ UNCHANGED <<client, main, kidcd, forked, fails, signals, greeted, unserved>>

\* return 0: the kernel closes what is left and posts SIGCHLD.
KidExits(k) ==
  /\ kid[k] = "exit"
  /\ kid' = [kid EXCEPT ![k] = "zombie"]
  /\ kidfds' = [kidfds EXCEPT ![k] = {}]
  /\ pending' = TRUE
  /\ UNCHANGED <<client, main, kidcd, forked, fails, handler, greeted, unserved>>

-----------------------------------------------------------------------------
(* sigchld_handler, installed by reap_zombies *)

HandlerStarts ==
  /\ pending /\ ~handler /\ pc # "exited"
  /\ pending' = FALSE
  /\ handler' = TRUE
  /\ UNCHANGED <<client, main, kids, fails, greeted, unserved>>

\* Variant: one waitpid per signal.
ReapOnce(k) ==
  /\ handler /\ kid[k] = "zombie"
  /\ kid' = [kid EXCEPT ![k] = "reaped"]
  /\ handler' = FALSE
  /\ UNCHANGED <<client, main, kidcd, kidfds, forked, fails, pending, greeted, unserved>>

\* One successful waitpid(-1, NULL, WNOHANG) of the loop
Reap(k) ==
  /\ handler /\ kid[k] = "zombie"
  /\ kid' = [kid EXCEPT ![k] = "reaped"]
  /\ UNCHANGED <<client, main, kidcd, kidfds, forked, fails, signals, greeted, unserved>>

\* waitpid finds no zombie: the handler returns.
HandlerReturns ==
  /\ handler /\ \A k \in Kids : kid[k] # "zombie"
  /\ handler' = FALSE
  /\ UNCHANGED <<client, main, kids, fails, pending, greeted, unserved>>

-----------------------------------------------------------------------------
Main == Setup \/ (\E c \in Clients : Accept(c)) \/ Fork \/ ForkFails \/ ParentCloses
Kid(k) == KidSends(k) \/ KidKilled(k) \/ KidCloses(k) \/ KidExits(k)
Handler == HandlerStarts \/ (\E k \in Kids : Reap(k)) \/ HandlerReturns

Next == Main \/ AcceptFails \/ Handler \/ (\E c \in Clients : Connect(c)) \/ (\E k \in Kids : Kid(k))

Spec == Init /\ [][Next]_vars

\* Every process runs, and a pending signal is delivered before the parent
\* goes on for ever.  Clients need not come and accept need not fail.
Fairness ==
  /\ WF_vars(Main) /\ WF_vars(Handler)
  /\ \A k \in Kids : WF_vars(Kid(k))

-----------------------------------------------------------------------------
(* Properties *)

\* Each variable has its type: no failed accept enters a descriptor table, and
\* there are no more children than accepts.
TypeOK ==
  /\ client \in [Clients -> {"idle", "queued", "accepted"}]
  /\ pc \in {"setup", "accept", "fork", "close", "exited"}
  /\ cd \in Conns /\ fds \subseteq Clients
  /\ kid \in [Kids -> {"none", "send", "close", "exit", "zombie", "reaped"}]
  /\ kidcd \in [Kids -> Conns] /\ kidfds \in [Kids -> SUBSET Clients]
  /\ forked \in 0..Cardinality(Kids) /\ fails \in 0..MaxFails
  /\ pending \in BOOLEAN /\ handler \in BOOLEAN
  /\ greeted \in [Clients -> Nat] /\ unserved \subseteq Clients

\* No child is forgotten: while one is a zombie the signal that will have it
\* reaped is pending or the handler is still in its loop, however many
\* children died at once.
ZombiesNoticed ==
  (\E k \in Kids : kid[k] = "zombie") => pending \/ handler

\* A child has no connection open but its own, so no client waits for the end
\* of another client's child.
NoForeignConnection == \A k \in Kids : kidfds[k] \subseteq {kidcd[k]}

\* A client that was accepted and whose connection is closed again was sent
\* the greeting exactly once, unless fork or send failed.
GreetedOnce ==
  \A c \in Clients :
    client[c] = "accepted" /\ c \notin fds /\ (\A k \in Kids : c \notin kidfds[k])
      => greeted[c] = IF c \in unserved THEN 0 ELSE 1

\* Every accepted connection is closed in the end, by all who have it open, and
\* every child that was forked is reaped.
ChildrenEnd ==
  /\ \A c \in Clients :
       client[c] = "accepted" ~> (c \notin fds /\ \A k \in Kids : c \notin kidfds[k])
  /\ \A k \in Kids : kid[k] # "none" ~> kid[k] = "reaped"

=============================================================================
