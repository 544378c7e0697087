----------------------------- MODULE WriteLoop -----------------------------
(***************************************************************************)
(* The five loops of the repository that hand a buffer to write or send,      *)
(* which may take less than they are given:                                   *)
(*   pipe        04-process-management/pipe.c, main                           *)
(*   sendall     chat/client.c and select_client.c, sendall                   *)
(*   client      client2.c, client_sendall                                    *)
(*   write_all   02-file-io/kmp.c, write_all                                  *)
(*   daemon      04-process-management/unix_daemon.c, main                    *)
(* Bytes 1..Length are the buffer; higher numbers are memory behind it.       *)
(***************************************************************************)
EXTENDS Integers, Sequences

CONSTANTS
  Length,      \* bytes to write
  Loops        \* the loops under consideration

\* What the model assumes of its constants.
LoopAssumption ==
  Length \in Nat \ {0} /\ Loops \subseteq {"pipe", "sendall", "client", "write_all", "daemon"}

VARIABLES
  loop,     \* the loop that runs
  n,        \* its count of bytes written (i, n)
  len,      \* its count of bytes to write (cap, len, strlen(buf))
  wire,     \* what the descriptor has taken
  short,    \* a call has taken less than it was given
  state     \* "loop", "returned" or "failed"

vars == <<loop, n, len, wire, short, state>>

Init ==
  /\ loop \in Loops
  /\ n = 0 /\ len = Length
  /\ wire = <<>> /\ short = FALSE /\ state = "loop"

\* The first byte given to the call: buf + n, or buf; write_all's i stays 0.
Offset == IF loop \in {"pipe", "daemon"} THEN n ELSE 0

\* Variant: the length is not reduced by what was written.
AskedWhole == len
\* How many bytes the call is given.
Asked == IF loop = "pipe" THEN len - n ELSE len

Bytes(from, m) == [k \in 1..m |-> from + k]

\* The call takes m bytes.
Write(m) ==
  /\ state = "loop" /\ n < len /\ m \in 1..Asked
  /\ wire' = wire \o Bytes(Offset, m)
  /\ short' = (short \/ m < Asked)
  /\ IF loop = "write_all" THEN len' = len - m /\ n' = n
                           ELSE n' = n + m /\ len' = len
  /\ UNCHANGED <<loop, state>>

\* The call is interrupted before it takes anything: all but client_sendall
\* try again.
Interrupted ==
  /\ state = "loop" /\ n < len
  /\ state' = IF loop = "client" THEN "failed" ELSE state
  /\ UNCHANGED <<loop, n, len, wire, short>>

\* Any other error.
Fails ==
  /\ state = "loop" /\ n < len
  /\ state' = "failed"
  /\ UNCHANGED <<loop, n, len, wire, short>>

Returns ==
  /\ state = "loop" /\ n >= len
  /\ state' = "returned"
  /\ UNCHANGED <<loop, n, len, wire, short>>

Ended == state # "loop" /\ UNCHANGED vars

Next == (\E m \in 1..Length : Write(m)) \/ Interrupted \/ Fails \/ Returns \/ Ended

Spec == Init /\ [][Next]_vars

-----------------------------------------------------------------------------
(* Properties *)

Message == Bytes(0, Length)

\* A loop that returns has written the buffer, all of it and nothing else.
\* pipe.c keeps this whatever the calls take; the other four keep it as long
\* as no call is short.
WholeBuffer ==
  state = "returned" /\ (short => loop = "pipe") => wire = Message

\* "writes all bytes in buffer to file descriptor until error" (kmp.c): when
\* write_all returns, the buffer has been written.
WritesAll == state = "returned" => wire = Message

=============================================================================
