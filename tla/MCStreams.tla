----------------------------- MODULE MCStreams -----------------------------
(***************************************************************************)
(* One run for the programs that push bytes through descriptors and buffers:   *)
(* the write loops, the read loops, pipe.c, shell_pipe.c and kmp.c, and for    *)
(* insertion_sort.c.  The initial state picks one and only that one runs.      *)
(***************************************************************************)
EXTENDS Integers, Sequences

CONSTANTS
  Length, Loops,           \* WriteLoop, PipeStream
  BUFSIZE, PipeCap,        \* PipeStream, ShellPipe
  MaxOutput,               \* ShellPipe
  BLOCK, Lengths,          \* ReadLoop
  READ_SIZE, Letters, MaxText, MaxPattern,   \* KmpSearch
  Size, Values             \* InsertionSort

VARIABLES
  program,
  loop, n, len, wire, short, state,
  parent, child, written, ppipe, writers, readers, got, cap,
  sh, fd, ls, cat, lsfd, catfd, todo, output, spipe, shown, noexec,
  rloop, length, zeros, pos, size, last, out, rstate,
  file, pattern, kstate, kn, capacity, A, ki, kj, found,
  arr, a, b, given, i, j, tmp, at

writing == <<loop, n, len, wire, short, state>>
stream == <<parent, child, written, ppipe, writers, readers, got, cap>>
shell == <<sh, fd, ls, cat, lsfd, catfd, todo, output, spipe, shown, noexec>>
reading == <<rloop, length, zeros, pos, size, last, out, rstate>>
kmp == <<file, pattern, kstate, kn, capacity, A, ki, kj, found>>
insertion == <<arr, a, b, given, i, j, tmp, at>>
vars == <<program, writing, stream, shell, reading, kmp, insertion>>

Loop == INSTANCE WriteLoop
Stream == INSTANCE PipeStream WITH pipe <- ppipe
Shell == INSTANCE ShellPipe WITH pipe <- spipe

Reads == INSTANCE ReadLoop WITH loop <- rloop, state <- rstate
Kmp == INSTANCE KmpSearch WITH state <- kstate, n <- kn, i <- ki, j <- kj
Insertion == INSTANCE InsertionSort

ASSUME StreamsAssumption ==
  /\ Loop!LoopAssumption /\ Stream!PipeAssumption /\ Shell!ShellPipeAssumption
  /\ Reads!ReadAssumption /\ Kmp!KmpAssumption /\ Insertion!InsertionAssumption

Init ==
  /\ program \in {"loop", "stream", "shell", "read", "kmp", "insertion"}
  \* one initial state of each program that does not run is enough
  /\ program # "loop" => loop = "pipe"
  /\ program # "shell" => output = 0
  /\ program # "read" => rloop = "cat" /\ length = 0
  /\ program # "kmp" => file = <<>> /\ pattern = <<>>
  /\ program # "insertion" =>
       a = 0 /\ b = 0 /\ given = [k \in 0..Size - 1 |-> CHOOSE v \in Values : TRUE]
  /\ Loop!Init /\ Stream!Init /\ Shell!Init
  /\ Reads!Init /\ Kmp!Init /\ Insertion!Init

\* A step of one program leaves the others where they are.
InLoop(S) ==
  program = "loop" /\ S /\ UNCHANGED <<program, stream, shell, reading, kmp, insertion>>
InStream(S) ==
  program = "stream" /\ S /\ UNCHANGED <<program, writing, shell, reading, kmp, insertion>>
InShell(S) ==
  program = "shell" /\ S /\ UNCHANGED <<program, writing, stream, reading, kmp, insertion>>
InRead(S) ==
  program = "read" /\ S /\ UNCHANGED <<program, writing, stream, shell, kmp, insertion>>
InKmp(S) ==
  program = "kmp" /\ S /\ UNCHANGED <<program, writing, stream, shell, reading, insertion>>
InInsertion(S) ==
  program = "insertion" /\ S /\ UNCHANGED <<program, writing, stream, shell, reading, kmp>>

Next ==
  \/ InLoop(Loop!Next) \/ InStream(Stream!Next) \/ InShell(Shell!Next)
  \/ InRead(Reads!Next) \/ InKmp(Kmp!Next) \/ InInsertion(Insertion!Next)

\* The fairness of each program, while it runs.
Fairness ==
  /\ WF_vars(InStream(Stream!Parent)) /\ WF_vars(InStream(Stream!Child))
  /\ WF_vars(InShell(Shell!Shell)) /\ WF_vars(InShell(Shell!Ls)) /\ WF_vars(InShell(Shell!Cat))

FairSpec == Init /\ [][Next]_vars /\ Fairness

-----------------------------------------------------------------------------
(* Properties *)

\* Every write loop that returns has written its buffer and nothing else, if no
\* call was short; pipe.c's loop in any case.
WholeBuffer == Loop!WholeBuffer

\* pipe.c and kmp.c: every variable has its type, and the buffer, doubled one
\* read ahead, always has room for the next read and the final 0.
BufferFits == Stream!TypeOK /\ Stream!BufferFits /\ Kmp!TypeOK

\* pipe.c: the child has a prefix of the message, nothing is lost between the
\* processes, and two that end well have passed the whole message.
StreamIntact == Stream!StreamIntact

\* The loops of cat.c, echo.c, read_fifo.c, fgetc_buffer.c and fwrite_copy.c
\* store inside their buffers, but for read_fifo.c and a full buffer.  They pass
\* on all they read, but for what does not fill a block of fwrite_copy.c and, in
\* the others, a byte 0 and what follows it in what is printed at once.
InputPassedOn == Reads!TypeOK /\ Reads!StoresInside /\ Reads!PassesOn

\* kmp.c: the prefix table holds the longest borders and every occurrence of the
\* pattern has its line, overlapping ones included.  insertion_sort.c: each
\* round leaves the part it has reached sorted and complete.
AlgorithmsExact == Kmp!MatchesFound /\ Insertion!TypeOK /\ Insertion!SortsRange

\* shell_pipe.c: every variable has its type; when the shell is done the output
\* of ls has been shown, the children are reaped and the descriptors restored.
PipelineDone == Shell!TypeOK /\ Shell!PipelineDone

\* pipe.c: the child sees the end of the stream.  shell_pipe.c: the pipeline
\* ends if the output of ls fits into the pipe.
StreamsEnd == Stream!ChildEnds /\ (program = "shell" => Shell!EndsIfItFits)

=============================================================================
