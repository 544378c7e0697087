------------------------------ MODULE ReadLoop ------------------------------
(***************************************************************************)
(* The loops of the repository that read a descriptor or a stream to its end   *)
(* and pass on what they read:                                                 *)
(*   cat, echo   02-file-io/cat.c and echo.c, print_file and print_fd          *)
(*   fifo        04-process-management/read_fifo.c                             *)
(*   fgetc       03-buffered-io/fgetc_buffer.c: into a growing buffer, printed  *)
(*               at the end                                                    *)
(*   fwrite      03-buffered-io/fwrite_copy.c: fread and fwrite of whole blocks *)
(* The input is the bytes 1, ..., length, some of which have the value 0; what  *)
(* counts of a buffer is its size and the last index stored to.  All but        *)
(* fwrite_copy.c print with "%s" and so stop at the first byte 0 of what is in   *)
(* the buffer.  What else may lie at the byte read_fifo.c stores to behind a     *)
(* full buffer is not modelled.                                                *)
(***************************************************************************)
EXTENDS Integers

CONSTANTS
  BLOCK,       \* READ_SIZE, BUFFER_SIZE, sizeof buf, INIT_BUF, BUF_SIZE
  Lengths      \* lengths of the input

\* What the model assumes of its constants.
ReadAssumption == BLOCK \in Nat \ {0} /\ Lengths \subseteq Nat

Readers == {"cat", "echo", "fifo"}

VARIABLES
  loop, length,
  zeros,      \* the bytes of the input that are 0
  pos,        \* bytes read
  size,       \* of the buffer, the byte for the final 0 included
  last,       \* index of the last store
  out,        \* the bytes passed on
  state       \* "loop", "returned" or "failed"

vars == <<loop, length, zeros, pos, size, last, out, state>>

Init ==
  /\ loop \in Readers \union {"fgetc", "fwrite"} /\ length \in Lengths
  /\ zeros \in SUBSET (1..length)
  /\ pos = 0 /\ last = -1 /\ out = {} /\ state = "loop"
  /\ size = IF loop \in {"fifo", "fwrite"} THEN BLOCK ELSE BLOCK + 1

\* printf("%s") of the bytes from + 1, ..., upto: those before the first 0
Printed(from, upto) == {p \in from + 1..upto : \A z \in zeros : z > from => p < z}

\* read gives nr bytes; the 0 is stored behind them and the string printed
Read(nr) ==
  /\ state = "loop" /\ loop \in Readers /\ pos + nr <= length
  /\ pos' = pos + nr /\ last' = nr /\ out' = out \union Printed(pos, pos + nr)
  /\ UNCHANGED <<loop, length, zeros, size, state>>

\* Variant: the test forgets the byte kept for the 0.
GrownLate == IF pos = size THEN 2 * pos ELSE size

\* if (len == cap) the buffer is copied into one of 2 * cap + 1 bytes
Grown == IF pos = size - 1 THEN 2 * pos + 1 ELSE size

\* fgetc gives a byte
Getc ==
  /\ state = "loop" /\ loop = "fgetc" /\ pos < length
  /\ size' = Grown
  /\ last' = pos /\ pos' = pos + 1
  /\ UNCHANGED <<loop, length, zeros, out, state>>

\* fread gives a whole block and fwrite takes it
Copy ==
  /\ state = "loop" /\ loop = "fwrite" /\ pos + BLOCK <= length
  /\ pos' = pos + BLOCK /\ out' = out \union (pos + 1..pos + BLOCK) /\ last' = BLOCK - 1
  /\ UNCHANGED <<loop, length, zeros, size, state>>

\* The end of the input.  fgetc_buffer.c stores the 0 and prints; what is left
\* for fread is less than a block, is read and dropped.
End ==
  /\ state = "loop"
  /\ pos = length \/ (loop = "fwrite" /\ pos + BLOCK > length)
  /\ state' = "returned"
  /\ pos' = length
  /\ last' = IF loop = "fgetc" THEN pos ELSE last
  /\ out' = IF loop = "fgetc" THEN Printed(0, pos) ELSE out
  /\ UNCHANGED <<loop, length, zeros, size>>

\* Any error but EINTR, which the three readers retry
Fails ==
  /\ state = "loop"
  /\ state' = "failed"
  /\ UNCHANGED <<loop, length, zeros, pos, size, last, out>>

Ended == state # "loop" /\ UNCHANGED vars

Next == (\E nr \in 1..BLOCK : Read(nr)) \/ Getc \/ Copy \/ End \/ Fails \/ Ended

Spec == Init /\ [][Next]_vars

-----------------------------------------------------------------------------
(* Properties *)

\* Each variable has its type.
TypeOK ==
  /\ loop \in Readers \union {"fgetc", "fwrite"} /\ length \in Lengths
  /\ zeros \subseteq 1..length
  /\ pos \in 0..length /\ out \subseteq 1..pos /\ size \in Nat /\ last \in -1..length
  /\ state \in {"loop", "returned", "failed"}

\* Every store is inside the buffer, except that read_fifo.c, alone in giving
\* read its whole buffer, stores the 0 behind it when the buffer is full.
StoresInside == last < size \/ (loop = "fifo" /\ last = size)

\* What a loop that returns has passed on.  cat.c, echo.c and read_fifo.c: no
\* byte 0, and all others but those a byte 0 precedes so closely that one read
\* may have brought both.  fgetc_buffer.c: what precedes the first 0.
\* fwrite_copy.c: everything but the end that does not fill a block.  So without
\* a byte 0 the four that print lose nothing, whatever the sizes of the reads.
PassesOn ==
  state = "returned" =>
    CASE loop \in Readers ->
           /\ out \subseteq (1..length) \ zeros
           /\ \A p \in (1..length) \ out : \E z \in zeros : p - BLOCK < z /\ z <= p
      [] loop = "fgetc" -> out = {p \in 1..length : \A z \in zeros : p < z}
      [] loop = "fwrite" -> out = 1..BLOCK * (length \div BLOCK)

=============================================================================
