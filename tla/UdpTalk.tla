------------------------------- MODULE UdpTalk -------------------------------
(***************************************************************************)
(* 00-network-programming/examples/listener.c and talker.c: a talker sends one *)
(* datagram and waits for one; the listener takes a datagram, reads a line      *)
(* from its user into a growing buffer and sends it back to where the datagram  *)
(* came from.  Datagrams may be lost, overtake each other and arrive twice.     *)
(*                                                                            *)
(* A reply is its number.  After a store behind the buffer the listener may go  *)
(* on as if nothing had happened or die at any time.                           *)
(***************************************************************************)
EXTENDS Integers, Sequences, FiniteSets

CONSTANTS
  Talkers,
  BUFINIT,      \* first capacity of the reply's buffer (8 in the code)
  MaxAddrs,     \* bound: addresses getaddrinfo returns
  MaxReply,     \* bound: characters of a reply, newline included
  MaxDups       \* bound: datagrams that arrive twice

\* What the model assumes of its constants.
TalkAssumption ==
  /\ IsFiniteSet(Talkers) /\ BUFINIT \in Nat \ {0}
  /\ MaxAddrs \in Nat /\ MaxReply \in Nat \ {0} /\ MaxDups \in Nat

Nobody == "nobody"

VARIABLES
  lst,        \* where the listener is
  addrs,      \* addresses it has left to try, 0 if getaddrinfo failed
  socks,      \* descriptors it has open
  peer,       \* handle_message's peer
  n, cap,     \* of input_reply
  lens,       \* lengths of the replies it has stored so far
  wild,       \* a store has gone behind the buffer
  asked,      \* whom it has taken a datagram from, in that order
  tst,        \* each talker: "init", "send", "recv", "printed" or "failed"
  shown,      \* the reply each talker has printed, 0 before
  there,      \* talkers whose datagram is under way
  back,       \* replies under way: <<talker, number>>
  dups,       \* datagrams that have arrived twice
  lossy       \* a datagram was lost

vars == <<lst, addrs, socks, peer, n, cap, lens, wild, asked, tst, shown, there, back, dups, lossy>>
startup == <<addrs, socks>>
input == <<n, cap, lens, wild>>
net == <<there, back, dups, lossy>>

Init ==
  /\ lst = "socket" /\ addrs \in 0..MaxAddrs /\ socks = 0
  /\ peer = Nobody /\ n = 0 /\ cap = BUFINIT /\ lens = {} /\ wild = FALSE /\ asked = <<>>
  /\ tst = [t \in Talkers |-> "init"] /\ shown = [t \in Talkers |-> 0]
  /\ there = {} /\ back = {} /\ dups = 0 /\ lossy = FALSE

-----------------------------------------------------------------------------
(* The listener: udp_serv and init_with_first. *)

\* socket for the next address
Socket ==
  /\ lst = "socket" /\ addrs > 0
  /\ socks' = socks + 1 /\ lst' = "bind"
  /\ UNCHANGED <<addrs, peer, input, asked, tst, shown, net>>

\* socket fails: continue with the next address.
SocketFails ==
  /\ lst = "socket" /\ addrs > 0
  /\ addrs' = addrs - 1
  /\ UNCHANGED <<lst, socks, peer, input, asked, tst, shown, net>>

Bind ==
  /\ lst = "bind" /\ lst' = "recv"
  /\ UNCHANGED <<startup, peer, input, asked, tst, shown, net>>

\* Variant: the socket that could not be bound stays open.
BindFailsOpen ==
  /\ lst = "bind" /\ lst' = "socket" /\ addrs' = addrs - 1 /\ socks' = socks
  /\ UNCHANGED <<peer, input, asked, tst, shown, net>>

\* bind fails: try_close and the next address.
BindFails ==
  /\ lst = "bind" /\ lst' = "socket"
  /\ socks' = socks - 1 /\ addrs' = addrs - 1
  /\ UNCHANGED <<peer, input, asked, tst, shown, net>>

\* No address is left: main returns 1.
NoAddress ==
  /\ lst = "socket" /\ addrs = 0 /\ lst' = "ended"
  /\ UNCHANGED <<startup, peer, input, asked, tst, shown, net>>

-----------------------------------------------------------------------------
(* The listener: serve_forever. *)

\* recvfrom takes a datagram, which may have arrived twice and then is still
\* there; input_reply allocates its buffer.
HandleMessage(t, again) ==
  /\ lst = "recv" /\ t \in there /\ lst' = "input"
  /\ again => dups < MaxDups
  /\ there' = IF again THEN there ELSE there \ {t}
  /\ dups' = IF again THEN dups + 1 ELSE dups
  /\ peer' = t /\ asked' = Append(asked, t)
  /\ n' = 0 /\ cap' = BUFINIT
  /\ UNCHANGED <<startup, lens, wild, tst, shown, back, lossy>>

\* One character into a buffer doubled when it is full.
TypeChar ==
  /\ lst = "input" /\ n + 1 < MaxReply
  /\ cap' = IF n = cap THEN 2 * cap ELSE cap
  /\ n' = n + 1
  /\ UNCHANGED <<lst, startup, peer, lens, wild, asked, tst, shown, net>>

\* The newline is stored like any character, and then buf[n] = '\0'.
Newline ==
  /\ lst = "input" /\ lst' = "reply"
  /\ cap' = IF n = cap THEN 2 * cap ELSE cap
  /\ n' = n + 1 /\ lens' = lens \union {n'}
  /\ wild' = (wild \/ n' >= cap')
  /\ UNCHANGED <<startup, peer, asked, tst, shown, net>>

\* End of file or an error: exit, without a reply.
EndOfInput ==
  /\ lst = "input" /\ lst' = "ended"
  /\ UNCHANGED <<startup, peer, input, asked, tst, shown, net>>

\* Variant: the reply goes to whoever asked first.
ReplyToFirst ==
  /\ lst = "reply" /\ lst' = "recv"
  /\ back' = back \union {<<asked[1], Len(asked)>>}
  /\ UNCHANGED <<startup, peer, input, asked, tst, shown, there, dups, lossy>>

\* sendto(peer), and the next message
Reply ==
  /\ lst = "reply" /\ lst' = "recv"
  /\ back' = back \union {<<peer, Len(asked)>>}
  /\ UNCHANGED <<startup, peer, input, asked, tst, shown, there, dups, lossy>>

\* sendto fails: no more than a message on stderr
ReplyFails ==
  /\ lst = "reply" /\ lst' = "recv" /\ lossy' = TRUE
  /\ UNCHANGED <<startup, peer, input, asked, tst, shown, there, back, dups>>

\* What a store behind the buffer may lead to.
Dies ==
  /\ wild /\ lst # "ended" /\ lst' = "ended"
  /\ UNCHANGED <<startup, peer, input, asked, tst, shown, net>>

-----------------------------------------------------------------------------
(* The talkers. *)

\* init_with_first takes the first address it gets a socket for.
TalkerInit(t, found) ==
  /\ tst[t] = "init"
  /\ tst' = [tst EXCEPT ![t] = IF found THEN "send" ELSE "failed"]
  /\ UNCHANGED <<lst, startup, peer, input, asked, shown, net>>

TalkerSends(t) ==
  /\ tst[t] = "send"
  /\ tst' = [tst EXCEPT ![t] = "recv"] /\ there' = there \union {t}
  /\ UNCHANGED <<lst, startup, peer, input, asked, shown, back, dups, lossy>>

\* sendto or recvfrom fails: main returns 1.
TalkerFails(t) ==
  /\ tst[t] \in {"send", "recv"}
  /\ tst' = [tst EXCEPT ![t] = "failed"]
  /\ UNCHANGED <<lst, startup, peer, input, asked, shown, net>>

\* recvfrom takes a reply; main prints it and ends.
TalkerPrints(t, k) ==
  /\ tst[t] = "recv" /\ <<t, k>> \in back
  /\ tst' = [tst EXCEPT ![t] = "printed"] /\ shown' = [shown EXCEPT ![t] = k]
  /\ back' = back \ {<<t, k>>}
  /\ UNCHANGED <<lst, startup, peer, input, asked, there, dups, lossy>>

-----------------------------------------------------------------------------
(* The network. *)

Lose ==
  /\ \/ \E t \in there : there' = there \ {t} /\ back' = back
     \/ \E m \in back : back' = back \ {m} /\ there' = there
  /\ lossy' = TRUE
  /\ UNCHANGED <<lst, startup, peer, input, asked, tst, shown, dups>>

Rest == /\ lst \in {"recv", "ended"} /\ (lst = "recv" => there = {})
        /\ \A t \in Talkers : tst[t] \in {"recv", "printed", "failed"}
        /\ UNCHANGED vars

Listener ==
  \/ Socket \/ SocketFails \/ Bind \/ BindFails \/ NoAddress
  \/ \E t \in Talkers, again \in BOOLEAN : HandleMessage(t, again)
  \/ Reply \/ ReplyFails
User == TypeChar \/ Newline \/ EndOfInput
Talker(t) ==
  \/ \E found \in BOOLEAN : TalkerInit(t, found)
  \/ TalkerSends(t)
  \/ \E k \in 1..Len(asked) : TalkerPrints(t, k)

Next ==
  \/ Listener \/ User \/ Dies \/ Lose \/ Rest
  \/ \E t \in Talkers : Talker(t) \/ TalkerFails(t)

Spec == Init /\ [][Next]_vars

-----------------------------------------------------------------------------
(* Properties *)

\* Each variable has its type: no reply is under way to a message never taken.
TypeOK ==
  /\ lst \in {"socket", "bind", "recv", "input", "reply", "ended"}
  /\ addrs \in 0..MaxAddrs /\ socks \in Nat
  /\ n \in 0..MaxReply /\ cap \in Nat /\ wild \in BOOLEAN
  /\ asked \in Seq(Talkers) /\ there \subseteq Talkers
  /\ back \subseteq Talkers \X (1..Len(asked))
  /\ dups \in 0..MaxDups /\ lossy \in BOOLEAN
  /\ tst \in [Talkers -> {"init", "send", "recv", "printed", "failed"}]

\* A listener at work has one socket, and one that found no address none:
\* every socket that could not be bound was closed.
OneSocket ==
  /\ lst \in {"recv", "input", "reply"} => socks = 1
  /\ lst = "ended" /\ addrs = 0 => socks = 0

\* The capacities a reply's buffer may have: BUFINIT * 2^k.
Capacity[k \in 0..MaxReply] == IF k = 0 THEN BUFINIT ELSE 2 * Capacity[k - 1]

\* input_reply stores behind its buffer exactly if a reply, with its newline,
\* was as long as one of its capacities.
OverrunsExactly == wild <=> \E k \in 0..MaxReply : Capacity[k] \in lens

\* What a talker prints was typed in answer to a datagram of its own, however
\* datagrams were lost, doubled or overtook each other, and no reply is printed
\* by two talkers.
AnswersAsker ==
  \A t \in Talkers :
    tst[t] = "printed" =>
      /\ asked[shown[t]] = t
      /\ \A u \in Talkers \ {t} : tst[u] = "printed" => shown[u] # shown[t]

\* A talker that waits gets its reply if no datagram is lost and the listener,
\* whose user answers every message, goes on; otherwise it may wait for ever.
Answered ==
  \A t \in Talkers :
    tst[t] = "recv" ~> (tst[t] # "recv" \/ lossy \/ lst = "ended")

=============================================================================
