------------------------------ MODULE MCServers ------------------------------
(***************************************************************************)
(* One run for the programs that take one request after another: the forking   *)
(* server.c, file_server.c, listener.c with talker.c, shell.c and feast.c.     *)
(* The initial state picks one of them and only that one runs.                 *)
(***************************************************************************)
EXTENDS Integers, Sequences, FiniteSets

CONSTANTS
  Clients, NoConn, MaxFails,                          \* server.c
  SERV_BUF, LineLens, FileLens, MaxFds,               \* file_server.c, with Clients
  Talkers, BUFINIT, MaxAddrs, MaxReply, MaxDups,      \* listener.c, talker.c
  CAPINIT, MaxLine, MaxLines,                         \* shell.c
  TABLE_SPACE, Dishes, MaxOrders                      \* feast.c

VARIABLES
  program,
  client, pc, cd, fds, fkid, kidcd, kidfds, forked, fails, pending, handler, greeted, unserved,
  srv, cur, len, fcap, stored, pos, files, fline, file, conn, sent, hung, got, excused,
  lst, addrs, socks, peer, n, ucap, lens, uwild, asked, tst, shown, there, back, dups, lossy,
  sh, lines, line, cap, tokens, next, moved, crowded, wild, kid,
  platters, fetches, eof, state, served

forking == <<client, pc, cd, fds, fkid, kidcd, kidfds, forked, fails, pending, handler,
             greeted, unserved>>
fileserver == <<srv, cur, len, fcap, stored, pos, files, fline, file, conn, sent, hung,
                got, excused>>
udp == <<lst, addrs, socks, peer, n, ucap, lens, uwild, asked, tst, shown, there, back,
         dups, lossy>>
ezsh == <<sh, lines, line, cap, tokens, next, moved, crowded, wild, kid>>
feast == <<platters, fetches, eof, state, served>>
vars == <<program, forking, fileserver, udp, ezsh, feast>>

Forks == INSTANCE ForkServer WITH kid <- fkid
File == INSTANCE FileServer WITH cap <- fcap, line <- fline
Talk == INSTANCE UdpTalk WITH cap <- ucap, wild <- uwild
Ezsh == INSTANCE EzShell
Table == INSTANCE Feast

ASSUME ServersAssumption ==
  /\ Forks!ForkAssumption /\ File!FileServerAssumption /\ Talk!TalkAssumption
  /\ Ezsh!ShellAssumption /\ Table!FeastAssumption

Init ==
  /\ program \in {"fork", "file", "talk", "ezsh", "feast"}
  /\ Forks!Init /\ File!Init /\ Talk!Init /\ Ezsh!Init /\ Table!Init
  \* one initial state of each program that does not run is enough
  /\ program # "talk" => addrs = 0
  /\ program # "file" =>
       /\ file = [c \in Clients |-> File!NoFile]
       /\ fline = [c \in Clients |-> CHOOSE l \in LineLens : TRUE]

\* A step of one program leaves the others where they are.
InFork(A) == program = "fork" /\ A /\ UNCHANGED <<program, fileserver, udp, ezsh, feast>>
InFile(A) == program = "file" /\ A /\ UNCHANGED <<program, forking, udp, ezsh, feast>>
InTalk(A) == program = "talk" /\ A /\ UNCHANGED <<program, forking, fileserver, ezsh, feast>>
InEzsh(A) == program = "ezsh" /\ A /\ UNCHANGED <<program, forking, fileserver, udp, feast>>
InFeast(A) == program = "feast" /\ A /\ UNCHANGED <<program, forking, fileserver, udp, ezsh>>

Next ==
  \/ InFork(Forks!Next) \/ InFile(File!Next) \/ InTalk(Talk!Next) \/ InEzsh(Ezsh!Next)
  \/ InFeast(Table!Next)

\* The fairness of each program, while it runs, and of its environment: clients
\* go on sending their lines, the listener's user answers, commands end.
Fairness ==
  /\ WF_vars(InFork(Forks!Main)) /\ WF_vars(InFork(Forks!Handler))
  /\ \A k \in Forks!Kids : WF_vars(InFork(Forks!Kid(k)))
  /\ WF_vars(InFile(File!Server)) /\ \A c \in Clients : WF_vars(InFile(File!SendByte(c)))
  /\ WF_vars(InTalk(Talk!Listener)) /\ WF_vars(InTalk(Talk!Newline))
  /\ \A t \in Talkers : WF_vars(InTalk(Talk!Talker(t)))
  /\ WF_vars(InEzsh(Ezsh!Shell)) /\ WF_vars(InEzsh(Ezsh!Kid))

FairSpec == Init /\ [][Next]_vars /\ Fairness

-----------------------------------------------------------------------------
(* Properties *)

\* Every variable keeps its type, and the three programs that read lines read
\* one of any length inside its buffer: read_line of the file server always;
\* ezsh's unless a line has CAPINIT words; input_reply unless a reply is just as
\* long as the buffer.
LinesFit ==
  /\ Forks!TypeOK /\ File!TypeOK /\ Talk!TypeOK /\ Ezsh!TypeOK /\ Table!TypeOK
  /\ File!LineFits /\ Ezsh!LineFits /\ Talk!OverrunsExactly

\* server.c: no child is forgotten, although SIGCHLD is not queued: while one is
\* a zombie the signal that will have it reaped is pending or the handler runs.
ZombiesNoticed == Forks!ZombiesNoticed

\* server.c: a child has no connection open but its own, although fork copies
\* every descriptor of the parent.
NoForeignConnection == Forks!NoForeignConnection

\* server.c: a client whose connection is closed again was greeted exactly once,
\* unless fork or send failed.
GreetedOnce == Forks!GreetedOnce

\* Every request gets its own answer: a client the whole file, a talker the
\* reply to its own datagram, a command of ezsh the words typed if there are
\* fewer than CAPINIT of them.
RequestsServed == File!FileWhole /\ Talk!AnswersAsker /\ Ezsh!FewWordsSplit

\* A program that goes back to its next request has cleaned up after the last:
\* the file server dies of nothing but a client that hangs up on its file, and
\* the one descriptor it leaks for a request is the file's; the listener has
\* closed the sockets it did not bind, ezsh has reaped its child.
CleanedUp ==
  File!DiesOnlyOfHangUp /\ File!LeaksFilesOnly /\ Talk!OneSocket /\ Ezsh!ReadsAlone

\* feast.c: the platters, scanned once per order, implement a table that
\* replaces a least frequently used dish, and only when it is full.
TableIsLfu == Table!ImplementsLfu

\* The forking server closes every connection and reaps every child, the file
\* server gives every client its turn, a talker has its reply if no datagram is
\* lost, and ezsh comes back from every line.
ServersGoOn == Forks!ChildrenEnd /\ File!Serves /\ Talk!Answered /\ Ezsh!ComesBack

=============================================================================
