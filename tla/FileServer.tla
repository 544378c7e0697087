----------------------------- MODULE FileServer -----------------------------
(***************************************************************************)
(* 04-process-management/file_server.c: one process serves one client after    *)
(* the other.  It reads a line byte by byte into a growing buffer, opens the   *)
(* file of that name, sends it byte by byte and closes the connection, but     *)
(* never the file.                                                            *)
(*                                                                            *)
(* A line is its length and a file what it contains; the environment is the    *)
(* clients, which may send slowly or hang up at any time.                      *)
(***************************************************************************)
EXTENDS Integers, FiniteSets

CONSTANTS
  Clients,
  SERV_BUF,     \* first capacity of the buffer (8 in the code)
  LineLens,     \* lengths of the lines clients ask with, newline excluded
  FileLens,     \* lengths of the files there are
  MaxFds        \* descriptors the server may have besides the listening one

None == "none"     \* no client
NoFile == -1       \* the length of a file that does not exist

\* What the model assumes of its constants.
FileServerAssumption ==
  /\ IsFiniteSet(Clients) /\ None \notin Clients
  /\ SERV_BUF \in Nat \ {0} /\ MaxFds \in Nat \ {0}
  /\ LineLens \subseteq Nat /\ FileLens \subseteq Nat

VARIABLES
  srv,         \* where the server is
  cur,         \* client.sd
  len, cap,    \* of read_line
  stored,      \* highest index read_line has stored to, -1 at first
  pos,         \* offset in the file
  files,       \* files the server has open
  line, file,  \* what each client asks for: length of the line, of the file
  conn,        \* each client: "idle", "queued", "open" or "closed" by the server
  sent,        \* bytes of its line each client has sent
  hung,        \* the clients that have hung up
  got,         \* bytes of the file each client has been sent
  excused      \* the clients whose request an error of a call cut short

vars == <<srv, cur, len, cap, stored, pos, files, line, file, conn, sent, hung, got, excused>>
request == <<len, cap, stored>>
world == <<line, file, sent, hung>>

\* create_sock, init_sock, bind_sock and listen_sock have succeeded: main
\* returns if one fails.
Init ==
  /\ srv = "accept" /\ cur = None /\ len = 0 /\ cap = SERV_BUF /\ stored = -1
  /\ pos = 0 /\ files = 0
  /\ line \in [Clients -> LineLens] /\ file \in [Clients -> FileLens \union {NoFile}]
  /\ conn = [c \in Clients |-> "idle"] /\ sent = [c \in Clients |-> 0]
  /\ hung = {} /\ got = [c \in Clients |-> 0] /\ excused = {}

Fds == files + (IF cur = None THEN 0 ELSE 1)

-----------------------------------------------------------------------------
(* The clients. *)

Connect(c) ==
  /\ conn[c] = "idle"
  /\ conn' = [conn EXCEPT ![c] = "queued"]
  /\ UNCHANGED <<srv, cur, request, pos, files, world, got, excused>>

\* One more byte, the last one is the newline.
SendByte(c) ==
  /\ conn[c] \in {"queued", "open"} /\ c \notin hung /\ sent[c] <= line[c]
  /\ sent' = [sent EXCEPT ![c] = @ + 1]
  /\ UNCHANGED <<srv, cur, request, pos, files, line, file, hung, conn, got, excused>>

HangUp(c) ==
  /\ conn[c] \in {"queued", "open"} /\ c \notin hung
  /\ hung' = hung \union {c}
  /\ UNCHANGED <<srv, cur, request, pos, files, line, file, sent, conn, got, excused>>

-----------------------------------------------------------------------------
(* The server. *)

\* accept; read_line allocates its buffer.
Accept(c) ==
  /\ srv = "accept" /\ conn[c] = "queued" /\ Fds < MaxFds
  /\ cur' = c /\ conn' = [conn EXCEPT ![c] = "open"]
  /\ len' = 0 /\ cap' = SERV_BUF /\ stored' = -1 /\ srv' = "recv"
  /\ UNCHANGED <<pos, files, world, got, excused>>

\* accept fails for a client that hung up in the queue.  main says so and goes
\* on with descriptor -1: recv and close fail too, and it accepts again.
AcceptFails(c) ==
  /\ srv = "accept" /\ conn[c] = "queued" /\ c \in hung
  /\ conn' = [conn EXCEPT ![c] = "closed"]
  /\ UNCHANGED <<srv, cur, request, pos, files, world, got, excused>>

\* recv gives a byte, into a buffer doubled when it is full; the newline ends
\* the loop and is overwritten by the 0.
RecvByte ==
  /\ srv = "recv" /\ len < sent[cur]
  /\ cap' = IF len = cap THEN 2 * cap ELSE cap
  /\ len' = len + 1 /\ stored' = len
  /\ srv' = IF len = line[cur] THEN "open" ELSE "recv"
  /\ UNCHANGED <<cur, pos, files, world, conn, got, excused>>

\* Variant: a recv of 0 is taken for a byte still to come.
RecvEndsIgnored == srv = "recv" /\ cur \in hung /\ len = sent[cur] /\ UNCHANGED vars

\* recv gives 0 or -1: the client has hung up before the newline.
\* handle_client returns.
RecvEnds ==
  /\ srv = "recv" /\ cur \in hung /\ len = sent[cur]
  /\ srv' = "close"
  /\ UNCHANGED <<cur, request, pos, files, world, conn, got, excused>>

\* realloc fails: read_line gives up.
NoMemory ==
  /\ srv = "recv" /\ len = cap
  /\ srv' = "close" /\ excused' = excused \union {cur}
  /\ UNCHANGED <<cur, request, pos, files, world, conn, got>>

\* open succeeds
Open ==
  /\ srv = "open" /\ file[cur] # NoFile /\ Fds < MaxFds
  /\ files' = files + 1 /\ pos' = 0 /\ srv' = "read"
  /\ UNCHANGED <<cur, request, world, conn, got, excused>>

\* There is no such file, or no descriptor for it: the files sent before have
\* used them up.
OpenFails ==
  /\ srv = "open" /\ (file[cur] = NoFile \/ Fds >= MaxFds)
  /\ srv' = "close" /\ excused' = excused \union {cur}
  /\ UNCHANGED <<cur, request, pos, files, world, conn, got>>

\* read gives a byte (after EINTR it is called again), or the end of the file.
Read ==
  /\ srv = "read"
  /\ IF pos < file[cur] THEN pos' = pos + 1 /\ srv' = "send"
                        ELSE pos' = pos /\ srv' = "close"
  /\ UNCHANGED <<cur, request, files, world, conn, got, excused>>

\* Any other error of read: send_file returns -1.
ReadFails ==
  /\ srv = "read" /\ srv' = "close" /\ excused' = excused \union {cur}
  /\ UNCHANGED <<cur, request, pos, files, world, conn, got>>

\* send takes the byte; so it may even if the client has just hung up.
Send ==
  /\ srv = "send" /\ srv' = "read"
  /\ got' = [got EXCEPT ![cur] = @ + 1]
  /\ UNCHANGED <<cur, request, pos, files, world, conn, excused>>

\* send fails once the client is known to be gone: -1, or SIGPIPE, which
\* nothing in this program catches or ignores.
SendFails(outcome) ==
  /\ srv = "send" /\ cur \in hung
  /\ srv' = outcome /\ excused' = excused \union {cur}
  /\ UNCHANGED <<cur, request, pos, files, world, conn, got>>

\* close_client; the file stays open.
CloseClient ==
  /\ srv = "close"
  /\ conn' = [conn EXCEPT ![cur] = "closed"] /\ cur' = None /\ srv' = "accept"
  /\ UNCHANGED <<request, pos, files, world, got, excused>>

\* Nobody comes any more, or the process is dead.
Idle ==
  /\ srv = "dead" \/ (srv = "accept" /\ \A c \in Clients : conn[c] = "closed")
  /\ UNCHANGED vars

Server ==
  \/ \E c \in Clients : Accept(c) \/ AcceptFails(c)
  \/ RecvByte \/ RecvEnds \/ Open \/ OpenFails \/ Read \/ Send \/ CloseClient
Failure == NoMemory \/ ReadFails \/ \E o \in {"close", "dead"} : SendFails(o)

Next ==
  \/ \E c \in Clients : Connect(c) \/ SendByte(c) \/ HangUp(c)
  \/ Server \/ Failure \/ Idle

Spec == Init /\ [][Next]_vars

-----------------------------------------------------------------------------
(* Properties *)

\* Each variable has its type, a client is served exactly outside accept, and the
\* descriptors stay within their number.
TypeOK ==
  /\ srv \in {"accept", "recv", "open", "read", "send", "close", "dead"}
  /\ cur \in Clients \union {None} /\ (cur = None <=> srv = "accept")
  /\ len \in Nat /\ cap \in Nat /\ stored \in -1..len
  /\ pos \in Nat /\ files \in 0..MaxFds /\ Fds <= MaxFds
  /\ conn \in [Clients -> {"idle", "queued", "open", "closed"}]
  /\ sent \in [Clients -> Nat] /\ got \in [Clients -> Nat]
  /\ hung \subseteq Clients /\ excused \subseteq Clients

\* read_line stays in its buffer, the final 0 included, at every length.
LineFits == stored < cap

\* A client whose connection the server has closed has got its file, the whole
\* and nothing more, unless it hung up or a call failed; nobody gets a byte
\* before the line is finished.
FileWhole ==
  \A c \in Clients :
    /\ got[c] > 0 => sent[c] > line[c] /\ got[c] <= file[c]
    /\ conn[c] = "closed" /\ c \notin hung \union excused => got[c] = file[c]

\* The server outlives everything but a client that hangs up while its file is
\* being sent.
DiesOnlyOfHangUp == srv = "dead" => cur \in hung /\ got[cur] < file[cur]

\* The descriptor of a file is all a request leaves behind, one at most: between
\* requests there are no more than clients whose file was opened, and as many
\* as clients that got theirs.
LeaksFilesOnly ==
  LET With(S) == Cardinality({c \in S : conn[c] = "closed" /\ file[c] # NoFile})
  IN srv = "accept" => Fds \in With(Clients \ (hung \union excused))..With(Clients)

\* A client in the queue has its turn in the end, provided that the clients
\* before it go on sending their lines: there is no timeout and no second
\* process, so one that stops without hanging up stops everybody.
Serves ==
  \A c \in Clients :
    conn[c] = "queued" ~> (conn[c] = "closed" \/ srv = "dead")

=============================================================================
