------------------------------ MODULE EzShell ------------------------------
(***************************************************************************)
(* 04-process-management/shell.c: ezsh reads a line into a growing buffer,     *)
(* splits it into a growing array of tokens, runs a builtin or a child, waits  *)
(* for the child and starts again.                                            *)
(*                                                                            *)
(* A line is a sequence of word characters "w" and delimiters "_"; a token is  *)
(* known by the number of its word.  After a store outside its memory the      *)
(* program may go on as if nothing had happened or die at any time.            *)
(***************************************************************************)
EXTENDS Integers, Sequences, FiniteSets

CONSTANTS
  CAPINIT,     \* first capacity of both buffers (8 in the code)
  MaxLine,     \* bound: characters in a line
  MaxLines     \* bound: lines the user types

\* What the model assumes of its constants.
ShellAssumption == CAPINIT \in Nat \ {0} /\ MaxLine \in Nat /\ MaxLines \in Nat

Chars == {"w", "_"}   \* a character belongs to a word or is one of DELIMS

NULL == 0         \* argv entries: NULL, the words 1, 2, ... or
ARRAY == -1       \* the address realloc returned, stored as a token

VARIABLES
  sh,        \* where the shell is
  lines,     \* lines typed so far
  line,      \* what read_line has stored of this line
  cap,       \* capacity of the buffer at work: cap + 1 characters or cap tokens
  tokens,    \* the array of split_line, as far as it is filled
  next,      \* the word strtok will return next
  moved,     \* realloc has moved the array, which tokens does not point to now
  crowded,   \* a line of CAPINIT words or more has been typed
  wild,      \* a store has gone outside the memory that was allocated
  kid        \* the child: "none", "forked", "running", "zombie"

vars == <<sh, lines, line, cap, tokens, next, moved, crowded, wild, kid>>

Init ==
  /\ sh = "read" /\ lines = 0 /\ line = <<>> /\ cap = CAPINIT
  /\ tokens = <<>> /\ next = 1 /\ moved = FALSE /\ crowded = FALSE /\ wild = FALSE
  /\ kid = "none"

\* strtok: words are what delimiters separate.
Words == Cardinality({k \in 1..Len(line) : line[k] = "w" /\ (k = 1 \/ line[k - 1] = "_")})

\* Variant: the buffer grows one character late.
ReadCharLate(c) ==
  /\ sh = "read" /\ Len(line) < MaxLine /\ lines < MaxLines
  /\ line' = Append(line, c)
  /\ cap' = IF Len(line) = cap + 1 THEN 2 * cap ELSE cap
  /\ wild' = (wild \/ Len(line) > cap')
  /\ UNCHANGED <<sh, lines, tokens, next, moved, crowded, kid>>

\* fgetc gives a character; a full buffer is copied into one twice its size.
ReadChar(c) ==
  /\ sh = "read" /\ Len(line) < MaxLine /\ lines < MaxLines
  /\ line' = Append(line, c)
  /\ cap' = IF Len(line) = cap THEN 2 * cap ELSE cap
  /\ wild' = (wild \/ Len(line) > cap')
  /\ UNCHANGED <<sh, lines, tokens, next, moved, crowded, kid>>

\* The newline: buf[len] = '\0', in the extra character of the buffer;
\* split_line allocates its array and calls strtok.
EndOfLine ==
  /\ sh = "read" /\ lines < MaxLines
  /\ sh' = "split" /\ lines' = lines + 1
  /\ wild' = (wild \/ Len(line) > cap)
  /\ cap' = CAPINIT /\ tokens' = <<>> /\ next' = 1 /\ moved' = FALSE
  /\ crowded' = (crowded \/ Words >= CAPINIT)
  /\ UNCHANGED <<line, kid>>

\* End of file, an error or no memory: read_line exits, whatever was typed of
\* the line.
EndOfInput ==
  /\ sh = "read" /\ sh' = "ended"
  /\ UNCHANGED <<lines, line, cap, tokens, next, moved, crowded, wild, kid>>

\* No memory for the array: exit(1)
NoArray ==
  /\ sh = "split" /\ tokens = <<>> /\ sh' = "ended"
  /\ UNCHANGED <<lines, line, cap, tokens, next, moved, crowded, wild, kid>>

\* tokens[n++] = token.  With a full array token = realloc(tokens, ...) comes
\* first: the token is lost, and tokens keeps the old address, which is good
\* only if realloc could grow the array where it was.  The test of tokens
\* against NULL that follows is about the old array and never true.
StoreToken(realloc) ==
  /\ sh = "split" /\ next <= Words
  /\ LET full == Len(tokens) >= cap
     IN /\ cap' = IF full THEN 2 * cap ELSE cap
        /\ tokens' = Append(tokens, IF ~full THEN next
                                   ELSE IF realloc = "fails" THEN NULL ELSE ARRAY)
        /\ moved' = (moved \/ (full /\ realloc = "moves"))
        /\ wild' = (wild \/ moved' \/ (full /\ realloc = "fails"))
  /\ next' = next + 1
  /\ UNCHANGED <<sh, lines, line, crowded, kid>>

\* tokens[n] = NULL
EndTokens ==
  /\ sh = "split" /\ next > Words
  /\ tokens' = Append(tokens, NULL)
  /\ wild' = (wild \/ moved \/ Len(tokens) >= cap)
  /\ sh' = "execute"
  /\ UNCHANGED <<lines, line, cap, next, moved, crowded, kid>>

\* free(line), free(argv) and the next line; argv was freed before if it moved.
NextLine ==
  /\ sh' = "read" /\ line' = <<>> /\ cap' = CAPINIT
  /\ tokens' = <<>> /\ moved' = FALSE /\ wild' = (wild \/ moved)

\* An empty line, cd or help: the shell goes on.
Builtin ==
  /\ sh = "execute" /\ NextLine
  /\ UNCHANGED <<lines, next, crowded, kid>>

\* exit: the loop ends.
ExitCommand ==
  /\ sh = "execute" /\ tokens[1] # NULL /\ sh' = "ended" /\ wild' = (wild \/ moved)
  /\ UNCHANGED <<lines, line, cap, tokens, next, moved, crowded, kid>>

\* fork
Launch ==
  /\ sh = "execute" /\ tokens[1] # NULL
  /\ kid' = "forked" /\ sh' = "wait"
  /\ UNCHANGED <<lines, line, cap, tokens, next, moved, crowded, wild>>

\* fork fails: exit(1)
LaunchFails ==
  /\ sh = "execute" /\ tokens[1] # NULL /\ sh' = "ended"
  /\ UNCHANGED <<lines, line, cap, tokens, next, moved, crowded, wild, kid>>

\* execvp fails: the child exits.
ExecFails ==
  /\ kid = "forked" /\ kid' = "zombie"
  /\ UNCHANGED <<sh, lines, line, cap, tokens, next, moved, crowded, wild>>

\* execvp replaces the child by the command ...
Exec ==
  /\ kid = "forked" /\ kid' = "running"
  /\ UNCHANGED <<sh, lines, line, cap, tokens, next, moved, crowded, wild>>

\* ... which ends at last.
CommandEnds ==
  /\ kid = "running" /\ kid' = "zombie"
  /\ UNCHANGED <<sh, lines, line, cap, tokens, next, moved, crowded, wild>>

\* waitpid returns the child.
Wait ==
  /\ sh = "wait" /\ kid = "zombie"
  /\ kid' = "none" /\ NextLine
  /\ UNCHANGED <<lines, next, crowded>>

\* waitpid fails, with SIGCHLD ignored, when the child has ended: exit(1)
WaitFails ==
  /\ sh = "wait" /\ kid = "zombie"
  /\ kid' = "none" /\ sh' = "ended"
  /\ UNCHANGED <<lines, line, cap, tokens, next, moved, crowded, wild>>

\* What a store or a free outside allocated memory may lead to.
Dies ==
  /\ wild /\ sh \notin {"ended", "dead"} /\ sh' = "dead"
  /\ UNCHANGED <<lines, line, cap, tokens, next, moved, crowded, wild, kid>>

Ended == sh \in {"ended", "dead"} /\ UNCHANGED vars

Shell ==
  \/ EndTokens \/ Builtin \/ ExitCommand \/ Launch \/ LaunchFails \/ Wait \/ WaitFails
  \/ NoArray \/ \E r \in {"grows", "moves", "fails"} : StoreToken(r)
User == (\E c \in Chars : ReadChar(c)) \/ EndOfLine \/ EndOfInput
Kid == ExecFails \/ Exec \/ CommandEnds

Next == Shell \/ User \/ Kid \/ Dies \/ Ended

Spec == Init /\ [][Next]_vars

-----------------------------------------------------------------------------
(* Properties *)

\* Each variable has its type: strtok never passes the end of the line.
TypeOK ==
  /\ sh \in {"read", "split", "execute", "wait", "ended", "dead"}
  /\ lines \in 0..MaxLines
  /\ line \in Seq(Chars) /\ tokens \in Seq(Int)
  /\ cap \in Nat /\ next \in 1..MaxLine + 1
  /\ moved \in BOOLEAN /\ crowded \in BOOLEAN /\ wild \in BOOLEAN
  /\ kid \in {"none", "forked", "running", "zombie"}

\* No line, however long, takes a store outside its memory, in ezsh_read_line
\* or in ezsh_split_line, unless it has CAPINIT words or more.
LineFits == wild => crowded

\* With fewer words than the first capacity, argv is what the line says.
FewWordsSplit ==
  sh \in {"execute", "wait"} /\ Words < CAPINIT =>
    tokens = [k \in 1..Words + 1 |-> IF k <= Words THEN k ELSE NULL]

\* "parse command and arguments from line, assuming quotations are not allowed"
\* (ezsh_split_line): argv is the words of the line and NULL.
Splits ==
  sh \in {"execute", "wait"} =>
    tokens = [k \in 1..Words + 1 |-> IF k <= Words THEN k ELSE NULL]

\* A shell that reads has no child: it has reaped the last one, and no child
\* reads along with it.
ReadsAlone == sh = "read" => kid = "none"

\* Every line is split and executed, and the shell comes back for the next one
\* or ends, provided that the commands it starts end.
ComesBack == sh = "split" ~> sh \in {"read", "ended", "dead"}

=============================================================================
