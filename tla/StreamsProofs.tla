---------------------------- MODULE StreamsProofs ----------------------------
(***************************************************************************)
(* Proofs about the programs of MCStreams, for every value of their            *)
(* constants.  As in ServersProofs each program has an inductive invariant of  *)
(* its own, and their conjunction is an invariant of the run.                  *)
(***************************************************************************)
EXTENDS MCStreams, Induction, FiniteSetTheorems, FunctionTheorems, SequenceTheorems, TLAPS

-----------------------------------------------------------------------------
(* The write loops *)

LoopTypes ==
  /\ loop \in Loops /\ n \in Nat /\ len \in Nat /\ short \in BOOLEAN
  /\ state \in {"loop", "returned", "failed"}

\* What the descriptor has taken: for pipe.c the first n bytes, however short the
\* calls were; for a loop none of whose calls was short nothing or the buffer.
Taken ==
  /\ loop = "pipe" => len = Length /\ n <= Length /\ wire = Loop!Bytes(0, n)
  /\ loop # "pipe" /\ ~short =>
       \/ n = 0 /\ len = Length /\ wire = <<>>
       \/ n >= len /\ wire = Loop!Message
  /\ state = "returned" => n >= len

\* The inductive invariant of the write loops.
LoopInv == LoopTypes /\ Taken

\* The bytes up to n and m more are the bytes up to n + m.
LEMMA BytesJoin ==
  ASSUME NEW x \in Nat, NEW y \in Nat
  PROVE  /\ Loop!Bytes(0, x) \in Seq(Nat)
         /\ Loop!Bytes(0, x) \o Loop!Bytes(x, y) = Loop!Bytes(0, x + y)
<1> DEFINE s == [k \in 1..x |-> 0 + k]
           t == [k \in 1..y |-> x + k]
           u == [k \in 1..x + y |-> 0 + k]
<1>1. s \in Seq(Nat) /\ Len(s) = x
  OBVIOUS
<1>2. t \in Seq(Nat) /\ Len(t) = y
  OBVIOUS
<1>3. u \in Seq(Nat) /\ Len(u) = x + y
  OBVIOUS
<1>4. s \o t \in Seq(Nat) /\ Len(s \o t) = x + y
  BY <1>1, <1>2, ConcatProperties
<1>5. \A k \in 1..x + y : (s \o t)[k] = IF k <= x THEN s[k] ELSE t[k - x]
  BY <1>1, <1>2, ConcatProperties
<1>6. \A k \in 1..x + y : (s \o t)[k] = u[k]
  BY <1>5
<1>7. s \o t = u
  BY <1>3, <1>4, <1>6, SeqEqual
<1> QED
  BY <1>1, <1>7 DEF Loop!Bytes

\* The loops start with nothing written.
LEMMA LoopInitially == ASSUME Loop!LoopAssumption, Loop!Init PROVE LoopInv
<1> USE DEF Loop!Init, Loop!LoopAssumption
<1>1. LoopTypes
  <2>1. short \in BOOLEAN
    OBVIOUS
  <2> QED
    BY <2>1 DEF LoopTypes
<1>2. wire = Loop!Bytes(0, 0)
  BY DEF Loop!Bytes
<1> QED
  BY <1>1, <1>2 DEF LoopInv, Taken

\* A call that takes m bytes.
LEMMA WriteStep ==
  ASSUME Loop!LoopAssumption, LoopInv, NEW m \in 1..Length, Loop!Write(m)
  PROVE  LoopInv'
<1> USE DEF LoopInv, LoopTypes, Loop!LoopAssumption
<1>1. /\ state = "loop" /\ n < len /\ m \in 1..Loop!Asked /\ m \in Nat /\ m >= 1
      /\ wire' = wire \o Loop!Bytes(Loop!Offset, m)
      /\ short' = (short \/ m < Loop!Asked)
      /\ UNCHANGED <<loop, state>>
  BY DEF Loop!Write
<1>2. n' \in Nat /\ len' \in Nat
  BY <1>1 DEF Loop!Write, Loop!Asked
<1>3. LoopTypes'
  <2>1. short' \in BOOLEAN
    BY <1>1
  <2> QED
    BY <1>1, <1>2, <2>1
<1>4. ASSUME loop = "pipe"
      PROVE  len' = Length /\ n' <= Length /\ wire' = Loop!Bytes(0, n')
  <2>1. n' = n + m /\ len' = len /\ m <= len - n /\ Loop!Offset = n
    BY <1>1, <1>4 DEF Loop!Write, Loop!Asked, Loop!Offset
  <2>2. wire = Loop!Bytes(0, n) /\ len = Length
    BY <1>4 DEF Taken
  <2>3. wire' = Loop!Bytes(0, n + m)
    BY <1>1, <2>1, <2>2, BytesJoin
  <2> QED
    BY <1>1, <2>1, <2>2, <2>3
<1>5. ASSUME loop # "pipe", ~short' PROVE n' >= len' /\ wire' = Loop!Message
  <2>1. ~short /\ Loop!Asked = len
    BY <1>1, <1>5 DEF Loop!Asked
  <2>2. ~ (m < Loop!Asked)
    BY <1>1, <1>5
  <2>0. m = len
    BY <1>1, <2>1, <2>2
  <2>3. n = 0 /\ len = Length /\ wire = <<>>
    BY <1>1, <1>5, <2>1 DEF Taken
  <2>4. n' >= len'
    BY <2>0, <2>3 DEF Loop!Write
  <2>5. wire = Loop!Bytes(0, 0) /\ Loop!Offset = 0
    BY <2>3 DEF Loop!Bytes, Loop!Offset
  <2>6. wire' = Loop!Bytes(0, 0 + Length)
    BY <1>1, <2>0, <2>3, <2>5, BytesJoin
  <2>7. 0 + Length = Length
    OBVIOUS
  <2> QED
    BY <2>4, <2>6, <2>7 DEF Loop!Message
<1> QED
  BY <1>1, <1>3, <1>4, <1>5 DEF Taken

\* Every step of a write loop preserves its invariant.
LEMMA LoopStep ==
  ASSUME Loop!LoopAssumption, LoopInv, [Loop!Next]_(Loop!vars)
  PROVE  LoopInv'
<1>1. ASSUME NEW m \in 1..Length, Loop!Write(m) PROVE LoopInv'
  BY <1>1, WriteStep
<1>2. CASE Loop!Interrupted
  BY <1>2 DEF Loop!Interrupted, LoopInv, LoopTypes, Taken, Loop!Message
<1>3. CASE Loop!Fails
  BY <1>3 DEF Loop!Fails, LoopInv, LoopTypes, Taken, Loop!Message
<1>4. CASE Loop!Returns
  BY <1>4 DEF Loop!Returns, LoopInv, LoopTypes, Taken, Loop!Message
<1>5. CASE UNCHANGED Loop!vars
  BY <1>5 DEF Loop!vars, LoopInv, LoopTypes, Taken, Loop!Message
<1> QED
  BY <1>1, <1>2, <1>3, <1>4, <1>5 DEF Loop!Next, Loop!Ended

\* A loop that has returned has written the buffer.
LEMMA LoopPromises == ASSUME Loop!LoopAssumption, LoopInv PROVE WholeBuffer
<1> SUFFICES ASSUME state = "returned", short => loop = "pipe" PROVE wire = Loop!Message
  BY DEF WholeBuffer, Loop!WholeBuffer
<1>1. n >= len
  BY DEF LoopInv, Taken
<1> QED
  BY <1>1 DEF LoopInv, LoopTypes, Taken, Loop!Message, Loop!LoopAssumption

-----------------------------------------------------------------------------
(* pipe.c *)

\* Nothing is lost on the way; a process that has the pipe to write to or to read
\* from has it open, and the child ends well only after the last byte.
Passed ==
  /\ got \o ppipe = [k \in 1..written |-> k]
  /\ parent \in {"fork", "write"} => "parent" \in writers
  /\ parent = "exited" => written = Length
  /\ child = "exited" => ppipe = <<>> /\ "parent" \notin writers

\* The inductive invariant of pipe.c.
StreamInv == Stream!TypeOK /\ Stream!BufferFits /\ Passed

\* Concatenation is associative.
LEMMA Joins ==
  ASSUME NEW S, NEW s \in Seq(S), NEW t \in Seq(S), NEW u \in Seq(S)
  PROVE  (s \o t) \o u = s \o (t \o u)
OBVIOUS

\* A read takes the first m bytes of the pipe and leaves the others.
LEMMA ReadMoves ==
  ASSUME NEW S, NEW t \in Seq(S), NEW m \in 1..Len(t)
  PROVE  /\ SubSeq(t, 1, m) \in Seq(S) /\ Len(SubSeq(t, 1, m)) = m
         /\ SubSeq(t, m + 1, Len(t)) \in Seq(S)
         /\ Len(SubSeq(t, m + 1, Len(t))) = Len(t) - m
         /\ SubSeq(t, 1, m) \o SubSeq(t, m + 1, Len(t)) = t
<1> DEFINE u == SubSeq(t, 1, m)
           v == SubSeq(t, m + 1, Len(t))
<1>1. m \in Nat /\ m >= 1 /\ m <= Len(t) /\ Len(t) \in Nat
  OBVIOUS
<1>2. u \in Seq(S) /\ Len(u) = m /\ \A k \in 1..m : u[k] = t[k]
  BY <1>1, SubSeqProperties
<1>3. v \in Seq(S) /\ Len(v) = Len(t) - m /\ \A k \in 1..Len(t) - m : v[k] = t[m + k]
  BY <1>1, SubSeqProperties
<1>4. u \o v = t
  <2> HIDE DEF u, v
  <2>1. u \o v \in Seq(S) /\ Len(u \o v) = Len(u) + Len(v)
    BY <1>2, <1>3, ConcatProperties
  <2>0. Len(u \o v) = Len(t)
    BY <1>1, <1>2, <1>3, <2>1
  <2>2. \A k \in 1..Len(t) : (u \o v)[k] = IF k <= m THEN u[k] ELSE v[k - m]
    BY <1>1, <1>2, <1>3, ConcatProperties
  <2>3. \A k \in 1..Len(t) : (u \o v)[k] = t[k]
    BY <1>1, <1>2, <1>3, <2>2
  <2> QED
    BY <2>1, <2>0, <2>3, SeqEqual
<1> QED
  BY <1>2, <1>3, <1>4

\* The buffer is doubled when no full read fits behind what came.
LEMMA GrownFits ==
  ASSUME Stream!PipeAssumption, cap \in Nat,
         NEW before \in Nat, before + BUFSIZE <= cap, NEW m \in 1..BUFSIZE
  PROVE  /\ Stream!Grown(before + m) \in Nat
         /\ before + m + BUFSIZE <= Stream!Grown(before + m)
BY DEF Stream!Grown, Stream!PipeAssumption

\* The parent's write.
LEMMA ParentWrites == ASSUME Stream!PipeAssumption, StreamInv, Stream!Write PROVE StreamInv'
<1> USE DEF StreamInv, Stream!PipeAssumption
<1>1. PICK m \in 1..Length - written :
        /\ Len(ppipe) + m <= PipeCap
        /\ ppipe' = ppipe \o [k \in 1..m |-> written + k]
        /\ written' = written + m
  BY DEF Stream!Write
<1>2. /\ parent = "write"
      /\ UNCHANGED <<parent, child, writers, readers, got, cap>>
  BY DEF Stream!Write, Stream!ends
<1>3. written \in Nat /\ m \in Nat /\ written' \in 0..Length
  BY <1>1 DEF Stream!TypeOK
<1> DEFINE new == [k \in 1..m |-> written + k]
<1>4. new \in Seq(1..Length) /\ Len(new) = m
  BY <1>1, <1>3 DEF Stream!TypeOK
<1>5. ppipe' \in Seq(1..Length) /\ Len(ppipe') = Len(ppipe) + m
  BY <1>1, <1>4, ConcatProperties DEF Stream!TypeOK
<1>6. Stream!TypeOK'
  BY <1>1, <1>2, <1>3, <1>5 DEF Stream!TypeOK
<1>7. got' \o ppipe' = [k \in 1..written' |-> k]
  <2>1. got' \o ppipe' = (got \o ppipe) \o new
    <3>1. got \in Seq(1..Length) /\ ppipe \in Seq(1..Length)
      BY DEF Stream!TypeOK
    <3>2. got' \o ppipe' = got \o (ppipe \o new)
      BY <1>1, <1>2
    <3> HIDE DEF new, StreamInv, Stream!PipeAssumption
    <3> QED
      BY <1>4, <3>1, <3>2, Joins, SMTT(30)
  <2>2. got \o ppipe = Loop!Bytes(0, written)
    BY <1>3 DEF Passed, Loop!Bytes
  <2>3. new = Loop!Bytes(written, m)
    BY DEF Loop!Bytes
  <2>4. got' \o ppipe' = Loop!Bytes(0, written')
    BY <1>1, <1>3, <2>1, <2>2, <2>3, BytesJoin
  <2> QED
    BY <2>4, <1>3 DEF Loop!Bytes
<1>8. Passed'
  BY <1>2, <1>7 DEF Passed
<1>9. Stream!BufferFits'
  BY <1>2 DEF Stream!BufferFits
<1> QED
  BY <1>6, <1>8, <1>9

\* The child's read.
LEMMA ChildReads == ASSUME Stream!PipeAssumption, StreamInv, Stream!Read PROVE StreamInv'
<1> USE DEF StreamInv, Stream!PipeAssumption
<1>1. PICK m \in 1..BUFSIZE :
        /\ m <= Len(ppipe)
        /\ got' = got \o SubSeq(ppipe, 1, m)
        /\ ppipe' = SubSeq(ppipe, m + 1, Len(ppipe))
        /\ cap' = Stream!Grown(Len(got'))
  BY DEF Stream!Read
<1>2. /\ child = "read"
      /\ UNCHANGED <<parent, child, written, writers, readers>>
  BY DEF Stream!Read, Stream!ends
<1>3. /\ got \in Seq(1..Length) /\ ppipe \in Seq(1..Length) /\ Len(ppipe) \in Nat
      /\ Len(got) \in Nat /\ m \in Nat /\ m \in 1..Len(ppipe)
  BY <1>1 DEF Stream!TypeOK
<1>4. /\ SubSeq(ppipe, 1, m) \in Seq(1..Length) /\ Len(SubSeq(ppipe, 1, m)) = m
      /\ ppipe' \in Seq(1..Length) /\ Len(ppipe') = Len(ppipe) - m
      /\ got' \o ppipe' = got \o ppipe
  <2> HIDE DEF StreamInv, Stream!PipeAssumption
  <2> DEFINE numbers == 1..Length
  <2>1. got \in Seq(numbers) /\ ppipe \in Seq(numbers)
    BY <1>3
  <2> HIDE DEF numbers
  <2> DEFINE u == SubSeq(ppipe, 1, m)
             v == SubSeq(ppipe, m + 1, Len(ppipe))
  <2>2. u \in Seq(numbers) /\ Len(u) = m /\ v \in Seq(numbers) /\ Len(v) = Len(ppipe) - m
    BY <1>3, <2>1, ReadMoves
  <2>3. u \o v = ppipe
    BY <1>3, <2>1, ReadMoves
  <2>4. got' = got \o u /\ ppipe' = v
    BY <1>1
  <2> HIDE DEF u, v
  <2>5. (got \o u) \o v = got \o (u \o v)
    <3>1. u \in Seq(numbers) /\ v \in Seq(numbers)
      BY <2>2
    <3> QED
      BY <2>1, <3>1, Joins
  <2> QED
    BY <2>2, <2>3, <2>4, <2>5 DEF numbers, u
<1>5. got' \in Seq(1..Length) /\ Len(got') = Len(got) + m
  BY <1>1, <1>3, <1>4, ConcatProperties
<1>6. cap' \in Nat /\ Len(got') + BUFSIZE <= cap'
  BY <1>1, <1>3, <1>5, GrownFits DEF Stream!BufferFits, Stream!TypeOK
<1>0. Len(ppipe') <= PipeCap
  BY <1>3, <1>4 DEF Stream!TypeOK
<1>7. Stream!TypeOK'
  BY <1>2, <1>4, <1>5, <1>6, <1>0 DEF Stream!TypeOK
<1>8. Passed'
  BY <1>2, <1>4 DEF Passed
<1> QED
  BY <1>6, <1>7, <1>8 DEF Stream!BufferFits

\* pipe.c starts before the fork, with an empty pipe.
LEMMA StreamInitially == ASSUME Stream!PipeAssumption, Stream!Init PROVE StreamInv
<1> USE DEF Stream!Init, Stream!PipeAssumption
<1>1. ppipe \in Seq(1..Length) /\ got \in Seq(1..Length) /\ Len(got) = 0 /\ Len(ppipe) = 0
  OBVIOUS
<1>2. got \o ppipe = [k \in 1..written |-> k]
  OBVIOUS
<1>3. Stream!TypeOK
  BY <1>1 DEF Stream!TypeOK
<1> QED
  BY <1>1, <1>2, <1>3 DEF StreamInv, Stream!BufferFits, Passed

\* Every step of pipe.c preserves its invariant.
LEMMA StreamStep ==
  ASSUME Stream!PipeAssumption, StreamInv, [Stream!Next]_(Stream!vars)
  PROVE  StreamInv'
<1> USE DEF StreamInv, Stream!TypeOK, Stream!BufferFits, Passed, Stream!Leaves
<1>1. CASE Stream!Fork
  BY <1>1 DEF Stream!Fork
<1>2. CASE Stream!Write
  BY <1>2, ParentWrites
<1>3. CASE Stream!ParentCloses
  BY <1>3 DEF Stream!ParentCloses
<1>4. CASE Stream!ChildCloses
  BY <1>4 DEF Stream!ChildCloses
<1>5. CASE Stream!Read
  BY <1>5, ChildReads
<1>6. CASE Stream!ReadEnd
  BY <1>6 DEF Stream!ReadEnd
<1>7. CASE Stream!ParentFails
  BY <1>7 DEF Stream!ParentFails
<1>8. CASE Stream!ChildFails
  BY <1>8 DEF Stream!ChildFails
<1>9. CASE UNCHANGED Stream!vars
  BY <1>9 DEF Stream!vars
<1> QED
  BY <1>1, <1>2, <1>3, <1>4, <1>5, <1>6, <1>7, <1>8, <1>9
     DEF Stream!Next, Stream!Parent, Stream!Child

\* Two processes that end well have passed the whole message.
LEMMA StreamPromises == ASSUME Stream!PipeAssumption, StreamInv PROVE StreamIntact
<1>1. ASSUME parent = "exited", child = "exited" PROVE Len(got) = Length
  <2>1. written = Length /\ ppipe = <<>>
    BY <1>1 DEF StreamInv, Passed
  <2>2. got \in Seq(1..Length)
    BY DEF StreamInv, Stream!TypeOK
  <2>3. got = [k \in 1..Length |-> k]
    BY <2>1, <2>2 DEF StreamInv, Passed
  <2> QED
    BY <2>3 DEF Stream!PipeAssumption
<1> QED
  BY <1>1 DEF StreamInv, Passed, StreamIntact, Stream!StreamIntact

-----------------------------------------------------------------------------
(* The read loops *)

\* The size of the buffer, and how far the last store was from its end.
Buffers ==
  /\ rloop \in Reads!Readers \union {"fwrite"} =>
       size = IF rloop \in {"fifo", "fwrite"} THEN BLOCK ELSE BLOCK + 1
  /\ rloop \in Reads!Readers => last <= BLOCK
  /\ rloop = "fwrite" => last < BLOCK
  /\ rloop = "fgetc" => pos < size /\ last < size /\ size >= 2

\* What has been passed on.
PassedOn ==
  /\ rloop \in Reads!Readers =>
       /\ out \subseteq (1..pos) \ zeros
       /\ \A p \in (1..pos) \ out : \E z \in zeros : p - BLOCK < z /\ z <= p
  /\ rloop = "fwrite" /\ rstate = "loop" => out = 1..pos /\ \E q \in 0..pos : pos = BLOCK * q

\* The inductive invariant of the read loops.
ReadInv == Reads!TypeOK /\ Buffers /\ PassedOn /\ Reads!PassesOn

\* The quotient of a length that lies between two multiples of the block.
LEMMA WholeBlocks ==
  ASSUME NEW size_ \in Nat \ {0}, NEW q \in Nat, NEW l \in Nat,
         size_ * q <= l, l < size_ * q + size_
  PROVE  l \div size_ = q
<1> DEFINE d == l \div size_
           r == l % size_
<1>1. d \in Nat /\ r \in 0..size_ - 1 /\ l = size_ * d + r
  OBVIOUS
<1> HIDE DEF d, r
<1>2. ASSUME d < q PROVE FALSE
  <2>1. size_ * (d + 1) <= size_ * q
    BY <1>1, <1>2
  <2>2. size_ * (d + 1) = size_ * d + size_
    BY <1>1
  <2> QED
    BY <1>1, <2>1, <2>2
<1>3. ASSUME q < d PROVE FALSE
  <2>1. size_ * (q + 1) <= size_ * d
    BY <1>1, <1>3
  <2>2. size_ * (q + 1) = size_ * q + size_
    OBVIOUS
  <2> QED
    BY <1>1, <2>1, <2>2
<1>4. d = q
  BY <1>1, <1>2, <1>3
<1> QED
  BY <1>4 DEF d

\* The loops start with an empty buffer.
LEMMA ReadInitially == ASSUME Reads!ReadAssumption, Reads!Init PROVE ReadInv
<1> USE DEF Reads!Init, Reads!ReadAssumption, Reads!Readers
<1>1. Reads!TypeOK
  BY DEF Reads!TypeOK
<1>2. Buffers
  BY DEF Buffers
<1>3. 0 \in 0..pos /\ pos = BLOCK * 0
  OBVIOUS
<1>4. PassedOn
  BY <1>3 DEF PassedOn
<1> QED
  BY <1>1, <1>2, <1>4 DEF ReadInv, Reads!PassesOn

\* Every step of a read loop preserves its invariant.
LEMMA ReadStep ==
  ASSUME Reads!ReadAssumption, ReadInv, [Reads!Next]_(Reads!vars)
  PROVE  ReadInv'
<1> USE DEF ReadInv, Reads!ReadAssumption
<1>1. ASSUME NEW nr \in 1..BLOCK, Reads!Read(nr) PROVE ReadInv'
  <2>1. /\ pos \in Nat /\ length \in Nat /\ zeros \subseteq 1..length /\ pos + nr <= length
        /\ pos' = pos + nr /\ UNCHANGED <<rloop, length, zeros, size, rstate>>
        /\ rloop \in Reads!Readers /\ rstate = "loop" /\ last' = nr
        /\ out' = out \union Reads!Printed(pos, pos + nr)
    BY <1>1 DEF Reads!Read, Reads!TypeOK
  <2>2. Reads!Printed(pos, pos + nr) \subseteq (pos + 1..pos + nr) \ zeros
    BY <2>1 DEF Reads!Printed
  <2>3. out \subseteq (1..pos) \ zeros
    BY <2>1 DEF PassedOn
  <2>4. out' \subseteq (1..pos') \ zeros
    <3>1. 1..pos \subseteq 1..pos' /\ pos + 1..pos + nr \subseteq 1..pos'
      BY <2>1
    <3> QED
      BY <2>1, <2>2, <2>3, <3>1
  <2>5. Reads!TypeOK' /\ Buffers' /\ Reads!PassesOn'
    BY <2>1, <2>4 DEF Reads!TypeOK, Buffers, Reads!PassesOn, Reads!Readers
  <2>6. ASSUME NEW p \in (1..pos') \ out' PROVE \E z \in zeros : p - BLOCK < z /\ z <= p
    <3>1. CASE p <= pos
      BY <2>1, <2>6, <3>1 DEF PassedOn
    <3>2. CASE p > pos
      <4>1. p \in pos + 1..pos + nr /\ p \notin Reads!Printed(pos, pos + nr)
        BY <2>1, <2>6, <3>2
      <4>2. PICK z \in zeros : z > pos /\ ~(p < z)
        BY <4>1 DEF Reads!Printed
      <4> QED
        BY <2>1, <4>1, <4>2
    <3> QED
      BY <2>1, <2>6, <3>1, <3>2
  <2> QED
    BY <2>1, <2>4, <2>5, <2>6 DEF PassedOn, Reads!Readers
<1>2. CASE Reads!Getc
  BY <1>2 DEF Reads!Getc, Reads!Grown, Reads!TypeOK, Buffers, PassedOn, Reads!PassesOn,
              Reads!Readers
<1>3. CASE Reads!Copy
  <2>1. out' = 1..pos'
    BY <1>3 DEF Reads!Copy, Reads!TypeOK, PassedOn
  <2>2. PICK q \in 0..pos : pos = BLOCK * q
    BY <1>3 DEF Reads!Copy, PassedOn
  <2>3. pos \in Nat /\ q \in Nat /\ pos' = pos + BLOCK
    BY <1>3, <2>2 DEF Reads!Copy, Reads!TypeOK
  <2>4. pos' = BLOCK * (q + 1) /\ q + 1 \in 0..pos'
    BY <2>2, <2>3
  <2>5. Reads!TypeOK' /\ Buffers' /\ Reads!PassesOn'
    BY <1>3, <2>1 DEF Reads!Copy, Reads!TypeOK, Buffers, Reads!PassesOn, Reads!Readers
  <2> QED
    BY <1>3, <2>1, <2>4, <2>5 DEF Reads!Copy, PassedOn, Reads!Readers
<1>4. CASE Reads!End
  <2>1. /\ pos \in Nat /\ length \in Nat /\ pos <= length /\ zeros \subseteq 1..length
        /\ UNCHANGED <<rloop, length, zeros, size>> /\ pos' = length
        /\ rstate = "loop" /\ rstate' = "returned"
        /\ pos = length \/ (rloop = "fwrite" /\ pos + BLOCK > length)
    BY <1>4 DEF Reads!End, Reads!TypeOK
  <2>2. CASE rloop \in Reads!Readers
    <3>1. pos' = pos /\ out' = out /\ last' = last
      BY <1>4, <2>1, <2>2 DEF Reads!End, Reads!Readers
    <3> QED
      BY <2>1, <2>2, <3>1 DEF Reads!TypeOK, Buffers, PassedOn, Reads!PassesOn, Reads!Readers
  <2>3. CASE rloop = "fgetc"
    <3>1. pos' = pos /\ pos = length /\ out' = Reads!Printed(0, pos) /\ last' = pos
      BY <1>4, <2>1, <2>3 DEF Reads!End
    <3>2. out' = {p \in 1..length : \A z \in zeros : p < z}
      <4>1. \A z \in zeros : z > 0
        BY <2>1
      <4> QED
        BY <3>1, <4>1 DEF Reads!Printed
    <3>3. out' \subseteq 1..pos'
      BY <3>1, <3>2
    <3> QED
      BY <2>1, <2>3, <3>1, <3>2, <3>3
         DEF Reads!TypeOK, Buffers, PassedOn, Reads!PassesOn, Reads!Readers
  <2>4. CASE rloop = "fwrite"
    <3>1. PICK q \in 0..pos : pos = BLOCK * q
      BY <2>1, <2>4 DEF PassedOn
    <3>2. q \in Nat /\ length < pos + BLOCK /\ out = 1..pos /\ out' = out /\ last' = last
      BY <1>4, <2>1, <2>4, <3>1 DEF Reads!End, PassedOn
    <3>3. length \div BLOCK = q
      BY <2>1, <3>1, <3>2, WholeBlocks
    <3>4. out' = 1..BLOCK * (length \div BLOCK) /\ out' \subseteq 1..pos'
      BY <2>1, <3>1, <3>2, <3>3
    <3> QED
      BY <2>1, <2>4, <3>2, <3>4 DEF Reads!TypeOK, Buffers, PassedOn, Reads!PassesOn, Reads!Readers
  <2> QED
    BY <2>2, <2>3, <2>4 DEF Reads!TypeOK
<1>5. CASE Reads!Fails
  BY <1>5, SMTT(30) DEF Reads!Fails, Reads!TypeOK, Buffers, PassedOn, Reads!PassesOn, Reads!Readers
<1>6. CASE UNCHANGED Reads!vars
  BY <1>6, ZenonT(60) DEF Reads!vars, Reads!TypeOK, Buffers, PassedOn, Reads!PassesOn
<1> QED
  BY <1>1, <1>2, <1>3, <1>4, <1>5, <1>6 DEF Reads!Next, Reads!Ended

\* What the invariant says of the stores.
LEMMA ReadPromises == ASSUME Reads!ReadAssumption, ReadInv PROVE InputPassedOn
<1>1. Reads!StoresInside
  BY DEF ReadInv, Reads!TypeOK, Buffers, Reads!StoresInside, Reads!Readers, Reads!ReadAssumption
<1> QED
  BY <1>1 DEF ReadInv, InputPassedOn

-----------------------------------------------------------------------------
(* shell_pipe.c *)

\* The shell's descriptors, step by step, until it fails.
Redirected ==
  sh[2] # "failed" =>
    /\ sh # <<"ls", "done">>
    /\ fd["in_d"] = "tty_in" /\ fd["out_d"] = "tty_out"
    /\ fd["out"] = IF sh[1] = "ls" /\ sh[2] # "redirect" THEN "write_end" ELSE "tty_out"
    /\ fd["in"] = IF sh[1] = "cat" /\ sh[2] \in {"fork", "wait", "restore"}
                  THEN "read_end" ELSE "tty_in"
    /\ fd["pd1"] = IF sh[1] = "ls" THEN "write_end" ELSE "closed"
    /\ fd["pd0"] = IF sh[2] = "done" THEN "closed" ELSE "read_end"

\* The children: one at a time, ls first.
InTurn ==
  /\ cat # "unborn" => ls = "reaped"
  /\ sh[2] # "failed" =>
       /\ ls \in (CASE sh[1] = "ls" /\ sh[2] \in {"redirect", "fork"} -> {"unborn"}
                    [] sh = <<"ls", "wait">> -> {"running", "zombie"}
                    [] OTHER -> {"reaped"})
       /\ cat \in (CASE sh[1] = "ls" \/ sh[2] \in {"redirect", "fork"} -> {"unborn"}
                     [] sh = <<"cat", "wait">> -> {"running", "zombie"}
                     [] OTHER -> {"reaped"})

\* Every byte of ls is still to be written, in the pipe or shown; a child that was
\* executed and has ended has done its part.
BytesCounted ==
  /\ todo + spipe + shown = output
  /\ ls \in {"zombie", "reaped"} /\ "ls" \notin noexec => todo = 0
  /\ cat \in {"zombie", "reaped"} /\ "cat" \notin noexec => spipe = 0

\* The inductive invariant of shell_pipe.c.
ShellInv == Shell!TypeOK /\ Redirected /\ InTurn /\ BytesCounted

\* shell_pipe.c starts with the pipe open and its standard descriptors duplicated.
LEMMA ShellInitially == ASSUME Shell!ShellPipeAssumption, Shell!Init PROVE ShellInv
<1> USE DEF Shell!Init, Shell!ShellPipeAssumption, Shell!Slots
<1>1. /\ fd \in [Shell!Slots -> Shell!Files]
      /\ fd["in"] = "tty_in" /\ fd["in_d"] = "tty_in" /\ fd["out"] = "tty_out"
      /\ fd["out_d"] = "tty_out" /\ fd["pd0"] = "read_end" /\ fd["pd1"] = "write_end"
  BY DEF Shell!Files
<1>2. sh \in Shell!Commands \X {"redirect", "fork", "wait", "restore", "done", "failed"}
  BY DEF Shell!Commands
<1>3. Shell!TypeOK
  BY <1>1, <1>2 DEF Shell!TypeOK
<1>4. sh[1] = "ls" /\ sh[2] = "redirect"
  OBVIOUS
<1> QED
  BY <1>1, <1>3, <1>4 DEF ShellInv, Redirected, InTurn, BytesCounted

\* Every step of shell_pipe.c preserves its invariant.
LEMMA ShellStep ==
  ASSUME Shell!ShellPipeAssumption, ShellInv, [Shell!Next]_(Shell!vars)
  PROVE  ShellInv'
<1> USE DEF ShellInv, Shell!ShellPipeAssumption
<1>1. ASSUME NEW c \in Shell!Commands, Shell!Redirect(c) PROVE ShellInv'
  <2>1. sh = <<c, "redirect">> /\ sh' = <<c, "fork">> /\ UNCHANGED Shell!children
        /\ fd' = [fd EXCEPT ![Shell!Sd(c)] = fd[Shell!Pd(c)]]
    BY <1>1 DEF Shell!Redirect
  <2>2. /\ sh[1] = c /\ sh[2] = "redirect" /\ sh'[1] = c /\ sh'[2] = "fork"
        /\ c \in {"ls", "cat"}
    BY <2>1 DEF Shell!Commands
  <2>3. Shell!TypeOK'
    BY <2>1, <2>2 DEF Shell!TypeOK, Shell!children, Shell!Commands, Shell!Slots, Shell!Sd, Shell!Pd
  <2>4. Redirected'
    BY <2>1, <2>2 DEF Redirected, Shell!TypeOK, Shell!Slots, Shell!Sd, Shell!Pd
  <2>5. InTurn'
    BY <2>1, <2>2 DEF InTurn, Shell!children
  <2>6. BytesCounted'
    BY <2>1 DEF BytesCounted, Shell!children
  <2> QED
    BY <2>3, <2>4, <2>5, <2>6
<1>2. ASSUME NEW c \in Shell!Commands, Shell!ForkExec(c) PROVE ShellInv'
  <2>1. /\ sh = <<c, "fork">> /\ sh' = <<c, "wait">>
        /\ UNCHANGED <<fd, todo, output, spipe, shown>>
    BY <1>2 DEF Shell!ForkExec
  <2>2. /\ sh[1] = c /\ sh[2] = "fork" /\ sh'[1] = c /\ sh'[2] = "wait"
        /\ c \in {"ls", "cat"}
    BY <2>1 DEF Shell!Commands
  <2>3. PICK kid \in {"running", "zombie"} :
          /\ noexec' = IF kid = "zombie" THEN noexec \union {c} ELSE noexec
          /\ IF c = "ls" THEN ls' = kid /\ lsfd' = fd /\ UNCHANGED <<cat, catfd>>
                         ELSE cat' = kid /\ catfd' = fd /\ UNCHANGED <<ls, lsfd>>
    BY <1>2 DEF Shell!ForkExec
  <2>4. Shell!TypeOK'
    BY <2>1, <2>2, <2>3 DEF Shell!TypeOK, Shell!Commands
  <2>5. Redirected'
    BY <2>1, <2>2 DEF Redirected
  <2>6. InTurn'
    BY <2>1, <2>2, <2>3 DEF InTurn
  <2>7. BytesCounted'
    BY <2>1, <2>2, <2>3 DEF BytesCounted, InTurn
  <2> QED
    BY <2>4, <2>5, <2>6, <2>7
<1>3. ASSUME NEW c \in Shell!Commands, Shell!Wait(c) PROVE ShellInv'
  <2>1. /\ sh = <<c, "wait">> /\ sh' = <<c, "restore">>
        /\ IF c = "ls" THEN ls = "zombie" /\ ls' = "reaped" /\ UNCHANGED cat
                       ELSE cat = "zombie" /\ cat' = "reaped" /\ UNCHANGED ls
        /\ UNCHANGED <<fd, lsfd, catfd, todo, output, spipe, shown, noexec>>
    BY <1>3 DEF Shell!Wait
  <2>2. /\ sh[1] = c /\ sh[2] = "wait" /\ sh'[1] = c /\ sh'[2] = "restore"
        /\ c \in {"ls", "cat"}
    BY <2>1 DEF Shell!Commands
  <2>3. Shell!TypeOK'
    BY <2>1, <2>2 DEF Shell!TypeOK, Shell!Commands
  <2>4. Redirected'
    BY <2>1, <2>2 DEF Redirected
  <2>5. InTurn'
    BY <2>1, <2>2 DEF InTurn
  <2>6. BytesCounted'
    BY <2>1, <2>2 DEF BytesCounted
  <2> QED
    BY <2>3, <2>4, <2>5, <2>6
<1>4. ASSUME NEW c \in Shell!Commands, Shell!Restore(c) PROVE ShellInv'
  <2>1. /\ sh = <<c, "restore">> /\ UNCHANGED Shell!children
        /\ sh' = IF c = "ls" THEN <<"cat", "redirect">> ELSE <<"cat", "done">>
        /\ fd' = [fd EXCEPT ![Shell!Sd(c)] = fd[Shell!Bd(c)], ![Shell!Pd(c)] = "closed"]
    BY <1>4 DEF Shell!Restore
  <2>2. /\ sh[1] = c /\ sh[2] = "restore" /\ sh'[1] = "cat"
        /\ sh'[2] = IF c = "ls" THEN "redirect" ELSE "done"
        /\ c \in {"ls", "cat"}
    BY <2>1 DEF Shell!Commands
  <2>3. Shell!TypeOK'
    BY <2>1, <2>2
       DEF Shell!TypeOK, Shell!children, Shell!Commands, Shell!Slots, Shell!Files, Shell!Sd,
           Shell!Pd, Shell!Bd
  <2>4. Redirected'
    BY <2>1, <2>2 DEF Redirected, Shell!TypeOK, Shell!Slots, Shell!Sd, Shell!Pd, Shell!Bd
  <2>5. InTurn'
    BY <2>1, <2>2 DEF InTurn, Shell!children
  <2>6. BytesCounted'
    BY <2>1 DEF BytesCounted, Shell!children
  <2> QED
    BY <2>3, <2>4, <2>5, <2>6
<1>5. CASE Shell!Ls
  <2>1. ls = "running" /\ cat = "unborn" /\ UNCHANGED <<sh, fd, cat, noexec>>
    BY <1>5 DEF Shell!Ls, InTurn
  <2>2. Shell!TypeOK' /\ Redirected' /\ BytesCounted'
    BY <1>5, <2>1 DEF Shell!Ls, Shell!TypeOK, Redirected, BytesCounted
  <2>3. sh[2] # "failed" => sh = <<"ls", "wait">> /\ sh[1] = "ls" /\ sh[2] = "wait"
    BY <2>1 DEF InTurn
  <2>4. InTurn'
    BY <1>5, <2>1, <2>3 DEF Shell!Ls, InTurn
  <2> QED
    BY <2>2, <2>4
<1>6. CASE Shell!Cat
  <2>1. cat = "running" /\ ls = "reaped" /\ UNCHANGED <<sh, fd, ls, noexec>>
    BY <1>6 DEF Shell!Cat, InTurn
  <2>2. Shell!TypeOK' /\ Redirected' /\ BytesCounted'
    BY <1>6, <2>1 DEF Shell!Cat, Shell!TypeOK, Redirected, BytesCounted
  <2>3. sh[2] # "failed" => sh = <<"cat", "wait">> /\ sh[1] = "cat" /\ sh[2] = "wait"
    BY <2>1 DEF InTurn
  <2>4. InTurn'
    BY <1>6, <2>1, <2>3 DEF Shell!Cat, InTurn
  <2> QED
    BY <2>2, <2>4
<1>7. CASE Shell!ShellFails
  <2>1. sh'[2] = "failed"
    BY <1>7 DEF Shell!ShellFails
  <2>2. Shell!TypeOK'
    BY <1>7 DEF Shell!ShellFails, Shell!TypeOK, Shell!children, Shell!Slots, Shell!Files
  <2>3. Redirected' /\ InTurn' /\ BytesCounted'
    BY <1>7, <2>1 DEF Shell!ShellFails, Redirected, InTurn, BytesCounted, Shell!children
  <2> QED
    BY <2>2, <2>3
<1>8. CASE UNCHANGED Shell!vars
  BY <1>8 DEF Shell!vars, Shell!TypeOK, Redirected, InTurn, BytesCounted
<1> QED
  BY <1>1, <1>2, <1>3, <1>4, <1>5, <1>6, <1>7, <1>8
     DEF Shell!Next, Shell!Shell, Shell!Stopped

\* What the invariant says of a shell that is done.
LEMMA ShellPromises == ASSUME Shell!ShellPipeAssumption, ShellInv PROVE PipelineDone
<1> USE DEF ShellInv
<1> SUFFICES ASSUME sh[2] = "done"
             PROVE  /\ noexec = {} => shown = output
                    /\ ls = "reaped" /\ cat = "reaped"
                    /\ fd["in"] = "tty_in" /\ fd["out"] = "tty_out"
                    /\ Shell!Has("read_end") = {} /\ Shell!Has("write_end") = {}
  BY DEF PipelineDone, Shell!PipelineDone
<1>1. sh[1] = "cat"
  BY DEF Redirected, Shell!TypeOK, Shell!Commands
<1>2. sh # <<"ls", "wait">> /\ sh # <<"cat", "wait">>
  OBVIOUS
<1>3. ls = "reaped" /\ cat = "reaped"
  BY <1>1, <1>2 DEF InTurn
<1>4. noexec = {} => shown = output
  BY <1>3 DEF BytesCounted, Shell!TypeOK
<1>5. /\ fd["in"] = "tty_in" /\ fd["out"] = "tty_out" /\ fd["in_d"] = "tty_in"
      /\ fd["out_d"] = "tty_out" /\ fd["pd0"] = "closed" /\ fd["pd1"] = "closed"
  BY <1>1 DEF Redirected
<1>6. Shell!Has("read_end") = {} /\ Shell!Has("write_end") = {}
  BY <1>3, <1>5 DEF Shell!Has, Shell!Slots
<1> QED
  BY <1>3, <1>4, <1>5, <1>6

-----------------------------------------------------------------------------
(* kmp.c *)

\* The first x letters of t end in the first l letters of the pattern.
EndsIn(t, x, l) == l \in 0..x /\ \A q \in 1..l : t[x - l + q] = pattern[q]

\* l is the longest of the lengths below limit that the first x letters of t end
\* in; -1 if there is none.
IsLongest(t, x, limit, l) ==
  /\ l \in -1..limit - 1
  /\ l # -1 => EndsIn(t, x, l)
  /\ \A k \in 0..limit - 1 : EndsIn(t, x, k) => k <= l

\* The table is right as far as it goes.
TableTo(d) ==
  /\ DOMAIN A = 0..d
  /\ \A k \in 0..d : IsLongest(pattern, k, k, A[k])

\* Where the pattern ends in the first x letters of the text.
Hits(x) == {k \in Kmp!m..x : k > 0 /\ EndsIn(file, k, Kmp!m)}

KmpTypes ==
  /\ file \in Seq(Letters) /\ pattern \in Seq(Letters)
  /\ kstate \in {"read", "table", "search", "done", "failed"}
  /\ kn \in 0..Len(file) /\ capacity \in Nat /\ kn + READ_SIZE <= capacity
  /\ ki \in Nat /\ kj \in -1..Kmp!m /\ found \in 0..Len(file)

\* The table, entry by entry, while it is built, and whole from then on.
TableBuilt ==
  /\ \E d \in 0..Kmp!m : TableTo(d)
  /\ kstate = "read" => ki = 0 /\ kj = -1 /\ found = 0 /\ TableTo(0)
  /\ kstate = "table" =>
       ki \in 0..Kmp!m /\ TableTo(ki) /\ kj = A[ki] /\ found = 0
  /\ kstate = "search" => TableTo(Kmp!m)

\* The search: j is the longest proper prefix of the pattern that what has been
\* seen of the text ends in, and every occurrence so far has its line.
Searched ==
  /\ kstate \in {"table", "search"} => kn = Len(file) /\ Kmp!m <= kn
  /\ kstate = "search" =>
       /\ ki \in 0..kn /\ found = Cardinality(Hits(ki))
       /\ IF Kmp!m = 0 THEN kj \in {-1, 0} ELSE IsLongest(file, ki, Kmp!m, kj)
  /\ kstate = "done" /\ Kmp!m > kn => found = 0

\* The inductive invariant of kmp.c.
KmpInv == KmpTypes /\ TableBuilt /\ Searched

\* If a text ends in k letters of the pattern and these end in l, so does the text.
LEMMA EndsThrough ==
  ASSUME NEW t, NEW x \in Nat, NEW k \in Nat, NEW l \in Nat,
         EndsIn(t, x, k), EndsIn(pattern, k, l)
  PROVE  EndsIn(t, x, l)
<1>1. l <= k /\ k <= x
  BY DEF EndsIn
<1>2. ASSUME NEW q \in 1..l PROVE t[x - l + q] = pattern[q]
  <2>1. k - l + q \in 1..k /\ x - k + (k - l + q) = x - l + q
    BY <1>1
  <2>2. t[x - k + (k - l + q)] = pattern[k - l + q]
    BY <2>1 DEF EndsIn
  <2>3. pattern[k - l + q] = pattern[q]
    BY DEF EndsIn
  <2> QED
    BY <2>1, <2>2, <2>3
<1> QED
  BY <1>1, <1>2 DEF EndsIn

\* If a text ends in k letters of the pattern and in l of them, no more than k, the
\* k letters end in the l.
LEMMA EndsInside ==
  ASSUME NEW t, NEW x \in Nat, NEW k \in Nat, NEW l \in Nat, l <= k,
         EndsIn(t, x, k), EndsIn(t, x, l)
  PROVE  EndsIn(pattern, k, l)
<1>1. ASSUME NEW q \in 1..l PROVE pattern[k - l + q] = pattern[q]
  <2>1. k - l + q \in 1..k /\ x - k + (k - l + q) = x - l + q
    OBVIOUS
  <2>2. t[x - k + (k - l + q)] = pattern[k - l + q]
    BY <2>1 DEF EndsIn
  <2>3. t[x - l + q] = pattern[q]
    BY DEF EndsIn
  <2> QED
    BY <2>1, <2>2, <2>3
<1> QED
  BY <1>1 DEF EndsIn

\* One letter more.
LEMMA EndsNext ==
  ASSUME NEW t, NEW x \in Nat, NEW l \in Nat
  PROVE  EndsIn(t, x + 1, l + 1) <=> EndsIn(t, x, l) /\ t[x + 1] = pattern[l + 1]
<1>1. ASSUME EndsIn(t, x + 1, l + 1) PROVE EndsIn(t, x, l) /\ t[x + 1] = pattern[l + 1]
  <2>1. l <= x
    BY <1>1 DEF EndsIn
  <2>2. \A q \in 1..l + 1 : t[(x + 1) - (l + 1) + q] = pattern[q]
    BY <1>1 DEF EndsIn
  <2>3. ASSUME NEW q \in 1..l PROVE t[x - l + q] = pattern[q]
    <3>1. q \in 1..l + 1 /\ (x + 1) - (l + 1) + q = x - l + q
      BY <2>1
    <3> QED
      BY <2>2, <3>1
  <2>4. l + 1 \in 1..l + 1 /\ (x + 1) - (l + 1) + (l + 1) = x + 1
    BY <2>1
  <2>5. t[x + 1] = pattern[l + 1]
    BY <2>2, <2>4
  <2> QED
    BY <2>1, <2>3, <2>5 DEF EndsIn
<1>2. ASSUME EndsIn(t, x, l), t[x + 1] = pattern[l + 1] PROVE EndsIn(t, x + 1, l + 1)
  <2>1. l <= x
    BY <1>2 DEF EndsIn
  <2>2. ASSUME NEW q \in 1..l + 1 PROVE t[(x + 1) - (l + 1) + q] = pattern[q]
    <3>1. (x + 1) - (l + 1) + q = x - l + q
      BY <2>1
    <3>2. CASE q = l + 1
      <4>1. x - l + q = x + 1
        BY <2>1, <3>2
      <4> QED
        BY <1>2, <3>1, <3>2, <4>1
    <3>3. CASE q # l + 1
      <4>1. q \in 1..l
        BY <3>3
      <4> QED
        BY <1>2, <3>1, <4>1 DEF EndsIn
    <3> QED
      BY <3>2, <3>3
  <2>3. l + 1 \in 0..x + 1
    BY <2>1
  <2> QED
    BY <2>2, <2>3 DEF EndsIn
<1> QED
  BY <1>1, <1>2

\* The loop that follows the table ends, since every entry is less than its index;
\* so Back satisfies its equation.
LEMMA BackEquation ==
  ASSUME KmpTypes, NEW d \in 0..Kmp!m, TableTo(d), NEW c
  PROVE  \A k \in -1..d :
           Kmp!Back(c, k) = IF k # -1 /\ (k = Kmp!m \/ pattern[k + 1] # c)
                            THEN Kmp!Back(c, A[k]) ELSE k
<1> DEFINE Fails(k) == k # -1 /\ (k = Kmp!m \/ pattern[k + 1] # c)
           Solves(e) == {g \in [-1..e -> Int] :
                           \A k \in -1..e : g[k] = IF Fails(k) THEN g[A[k]] ELSE k}
           S == {e \in Nat : e <= d + 1 => Solves(e - 1) # {}}
<1>1. d \in Nat /\ \A k \in 0..d : A[k] \in -1..k - 1
  BY DEF TableTo, IsLongest, KmpTypes, Kmp!m
<1> HIDE DEF Fails
<1>2. 0 \in S
  <2>1. ~Fails(-1)
    BY DEF Fails
  <2>2. [k \in -1..-1 |-> k] \in Solves(-1)
    BY <2>1
  <2>3. 0 - 1 = -1
    OBVIOUS
  <2> QED
    BY <2>2, <2>3
<1>3. ASSUME NEW e \in Nat, e \in S PROVE e + 1 \in S
  <2> SUFFICES ASSUME e + 1 <= d + 1 PROVE Solves(e) # {}
    <3>1. (e + 1) - 1 = e /\ e + 1 \in Nat
      OBVIOUS
    <3> QED
      BY <3>1
  <2>1. PICK g \in [-1..e - 1 -> Int] :
          \A k \in -1..e - 1 : g[k] = IF Fails(k) THEN g[A[k]] ELSE k
    BY <1>3, <1>1
  <2>2. A[e] \in -1..e - 1
    BY <1>1
  <2> DEFINE h == [k \in -1..e |-> IF k # e THEN g[k] ELSE IF Fails(e) THEN g[A[e]] ELSE e]
  <2>3. \A k \in -1..e : h[k] \in Int
    BY <2>1, <2>2
  <2>4. h \in [-1..e -> Int]
    BY <2>3
  <2>5. \A k \in -1..e - 1 : h[k] = g[k]
    OBVIOUS
  <2>6. h[e] = IF Fails(e) THEN g[A[e]] ELSE e
    OBVIOUS
  <2> HIDE DEF h
  <2>7. ASSUME NEW k \in -1..e PROVE h[k] = IF Fails(k) THEN h[A[k]] ELSE k
    <3>1. CASE k = e
      BY <2>2, <2>5, <2>6, <3>1
    <3>2. CASE k # e
      <4>1. k \in -1..e - 1
        BY <3>2
      <4>2. Fails(k) => A[k] \in -1..e - 1
        <5>1. Fails(k) => k \in 0..d
          BY <4>1, <1>1 DEF Fails
        <5> QED
          BY <1>1, <4>1, <5>1
      <4> QED
        BY <2>1, <2>5, <4>1, <4>2
    <3> QED
      BY <3>1, <3>2
  <2> QED
    BY <2>4, <2>7
<1>4. d + 1 \in S
  <2> HIDE DEF S
  <2>1. d + 1 \in Nat
    BY <1>1
  <2> QED
    BY <1>2, <1>3, <2>1, NatSetInduction
<1>5. PICK g \in [-1..d -> Int] : \A k \in -1..d : g[k] = IF Fails(k) THEN g[A[k]] ELSE k
  <2>1. (d + 1) - 1 = d
    BY <1>1
  <2> QED
    BY <1>1, <1>4, <2>1
<1>6. {-1} \union DOMAIN A = -1..d
  BY <1>1 DEF TableTo
<1> DEFINE Eq(f) == f = [k \in {-1} \union DOMAIN A |-> IF Fails(k) THEN f[A[k]] ELSE k]
           back == CHOOSE f : Eq(f)
<1>7. Eq(g)
  BY <1>5, <1>6
<1>8. Eq(back)
  BY <1>7
<1>9. \A k : Kmp!Back(c, k) = back[k]
  BY DEF Kmp!Back, Fails
<1> HIDE DEF back
<1>10. \A k \in -1..d : back[k] = IF Fails(k) THEN back[A[k]] ELSE k
  BY <1>6, <1>8
<1> QED
  BY <1>9, <1>10 DEF Fails

\* Following the table from k one comes to the longest end of the first k letters
\* of the pattern behind which c stands in it.
LEMMA BackFinds ==
  ASSUME KmpTypes, NEW d \in 0..Kmp!m, TableTo(d), NEW c
  PROVE  \A k \in -1..d :
           /\ Kmp!Back(c, k) \in -1..k
           /\ Kmp!Back(c, k) # -1 =>
                /\ EndsIn(pattern, k, Kmp!Back(c, k)) /\ Kmp!Back(c, k) < Kmp!m
                /\ pattern[Kmp!Back(c, k) + 1] = c
           /\ \A l \in 0..k : EndsIn(pattern, k, l) /\ l < Kmp!m /\ pattern[l + 1] = c
                                => l <= Kmp!Back(c, k)
<1> DEFINE Best(k) ==
             /\ Kmp!Back(c, k) \in -1..k
             /\ Kmp!Back(c, k) # -1 =>
                  /\ EndsIn(pattern, k, Kmp!Back(c, k)) /\ Kmp!Back(c, k) < Kmp!m
                  /\ pattern[Kmp!Back(c, k) + 1] = c
             /\ \A l \in 0..k : EndsIn(pattern, k, l) /\ l < Kmp!m /\ pattern[l + 1] = c
                                  => l <= Kmp!Back(c, k)
           S == {e \in Nat : e <= d + 1 => Best(e - 1)}
<1>1. d \in Nat /\ Kmp!m \in Nat /\ d <= Kmp!m
  BY DEF KmpTypes, Kmp!m
<1>2. ASSUME NEW e \in Nat, \A x \in 0..e - 1 : x \in S PROVE e \in S
  <2> SUFFICES ASSUME e <= d + 1 PROVE Best(e - 1)
    OBVIOUS
  <2> DEFINE k == e - 1
  <2>1. k \in -1..d /\ k \in Int
    BY <1>1
  <2>2. Kmp!Back(c, k) = IF k # -1 /\ (k = Kmp!m \/ pattern[k + 1] # c)
                         THEN Kmp!Back(c, A[k]) ELSE k
    BY <2>1, BackEquation
  <2>3. \A x \in -1..k - 1 : Best(x)
    <3> SUFFICES ASSUME NEW x \in -1..k - 1 PROVE Best(x)
      OBVIOUS
    <3> HIDE DEF Best
    <3>1. x + 1 \in 0..e - 1 /\ x + 1 <= d + 1 /\ (x + 1) - 1 = x
      BY <1>1, <2>1
    <3>2. x + 1 \in S
      BY <1>2, <3>1
    <3> QED
      BY <3>1, <3>2
  <2> HIDE DEF k
  <2>4. CASE k = -1
    <3>1. Kmp!Back(c, k) = -1
      BY <2>2, <2>4
    <3> QED
      BY <2>4, <3>1 DEF k
  <2>5. CASE k # -1 /\ k # Kmp!m /\ pattern[k + 1] = c
    <3>1. Kmp!Back(c, k) = k
      BY <2>2, <2>5
    <3>2. k \in 0..k /\ k \in Nat /\ k < Kmp!m
      BY <2>1, <2>5, <1>1
    <3>3. EndsIn(pattern, k, k)
      BY <3>2 DEF EndsIn
    <3> QED
      BY <2>5, <3>1, <3>2, <3>3 DEF k
  <2>6. CASE k # -1 /\ (k = Kmp!m \/ pattern[k + 1] # c)
    <3> DEFINE f == A[k]
    <3>1. k \in Nat /\ k \in 0..d
      BY <2>1, <2>6, <1>1
    <3>2. IsLongest(pattern, k, k, f)
      BY <3>1 DEF TableTo
    <3>3. f \in -1..k - 1
      BY <3>2 DEF IsLongest
    <3>4. Kmp!Back(c, k) = Kmp!Back(c, f)
      BY <2>2, <2>6
    <3>5. Best(f)
      BY <2>3, <3>3
    <3> HIDE DEF f
    <3> DEFINE r == Kmp!Back(c, f)
    <3>6. r \in -1..k
      BY <3>1, <3>3, <3>5
    <3>7. ASSUME r # -1 PROVE EndsIn(pattern, k, r) /\ r < Kmp!m /\ pattern[r + 1] = c
      <4>1. EndsIn(pattern, f, r) /\ r < Kmp!m /\ pattern[r + 1] = c /\ r \in -1..f
        BY <3>5, <3>7
      <4>2. r \in Nat /\ f \in Nat /\ f # -1
        BY <3>3, <3>7, <4>1
      <4>3. EndsIn(pattern, k, f)
        BY <3>2, <4>2 DEF IsLongest
      <4> HIDE DEF r
      <4>4. EndsIn(pattern, k, r)
        BY <3>1, <4>1, <4>2, <4>3, EndsThrough
      <4> QED
        BY <4>1, <4>4
    <3>8. ASSUME NEW l \in 0..k, EndsIn(pattern, k, l), l < Kmp!m, pattern[l + 1] = c
          PROVE  l <= r
      <4>1. l # k
        BY <2>6, <3>8
      <4>2. l \in 0..k - 1 /\ l \in Nat
        BY <3>1, <4>1
      <4>3. l <= f
        BY <3>2, <3>8, <4>2 DEF IsLongest
      <4>4. f \in Nat /\ f # -1 /\ l \in 0..f
        BY <3>3, <4>2, <4>3
      <4>5. EndsIn(pattern, k, f)
        BY <3>2, <4>4 DEF IsLongest
      <4>6. EndsIn(pattern, f, l)
        BY <3>1, <3>8, <4>2, <4>3, <4>4, <4>5, EndsInside
      <4> QED
        BY <3>5, <3>8, <4>4, <4>6
    <3> QED
      BY <3>4, <3>6, <3>7, <3>8 DEF k
  <2> QED
    BY <2>4, <2>5, <2>6
<1> HIDE DEF S
<1>3. \A e \in Nat : e \in S
  BY <1>2, StrongSetInduction
<1> SUFFICES ASSUME NEW k \in -1..d PROVE Best(k)
  OBVIOUS
<1> HIDE DEF Best
<1>4. k + 1 \in Nat /\ k + 1 <= d + 1 /\ (k + 1) - 1 = k
  BY <1>1
<1>5. k + 1 \in S
  BY <1>3, <1>4
<1> QED
  BY <1>4, <1>5 DEF S

\* One round: from the longest end below limit in the first x letters of t to the
\* longest up to limit in the first x + 1.
LEMMA Advances ==
  ASSUME KmpTypes, NEW d \in 0..Kmp!m, TableTo(d), NEW t, NEW x \in Nat,
         NEW limit \in 0..d, NEW l, IsLongest(t, x, limit, l)
  PROVE  LET new == Kmp!Back(t[x + 1], l) + 1
         IN  /\ new \in 0..limit /\ EndsIn(t, x + 1, new)
             /\ \A k \in 0..limit : EndsIn(t, x + 1, k) => k <= new
<1> DEFINE c == t[x + 1]
           r == Kmp!Back(c, l)
           new == r + 1
<1>1. d \in Nat /\ Kmp!m \in Nat /\ d <= Kmp!m /\ limit \in Nat /\ limit <= Kmp!m
  BY DEF KmpTypes, Kmp!m
<1>2. l \in -1..d /\ l \in -1..limit - 1
  BY <1>1 DEF IsLongest
<1>3. /\ r \in -1..l
      /\ r # -1 => EndsIn(pattern, l, r) /\ r < Kmp!m /\ pattern[r + 1] = c
      /\ \A k \in 0..l : EndsIn(pattern, l, k) /\ k < Kmp!m /\ pattern[k + 1] = c => k <= r
  BY <1>2, BackFinds
<1> HIDE DEF r, c
<1>4. new \in 0..limit
  BY <1>1, <1>2, <1>3
<1>5. EndsIn(t, x + 1, new)
  <2>1. CASE r = -1
    <3>1. new = 0
      BY <2>1
    <3> QED
      BY <3>1 DEF EndsIn
  <2>2. CASE r # -1
    <3>1. r \in Nat /\ l \in Nat /\ l # -1
      BY <1>2, <1>3, <2>2
    <3>2. EndsIn(t, x, l)
      BY <3>1 DEF IsLongest
    <3>3. EndsIn(t, x, r)
      BY <1>3, <2>2, <3>1, <3>2, EndsThrough
    <3> QED
      BY <1>3, <2>2, <3>1, <3>3, EndsNext DEF c
  <2> QED
    BY <2>1, <2>2
<1>6. ASSUME NEW k \in 0..limit, EndsIn(t, x + 1, k) PROVE k <= new
  <2>1. CASE k = 0
    BY <1>4, <2>1
  <2>2. CASE k # 0
    <3> DEFINE p == k - 1
    <3>1. p \in Nat /\ p + 1 = k /\ p \in 0..limit - 1 /\ p < Kmp!m
      BY <1>1, <2>2
    <3> HIDE DEF p
    <3>2. EndsIn(t, x, p) /\ pattern[p + 1] = c
      BY <1>6, <3>1, EndsNext DEF c
    <3>3. p <= l
      BY <3>1, <3>2 DEF IsLongest
    <3>4. l \in Nat /\ l # -1 /\ p \in 0..l
      BY <1>2, <3>1, <3>3
    <3>5. EndsIn(t, x, l)
      BY <3>4 DEF IsLongest
    <3>6. EndsIn(pattern, l, p)
      BY <3>1, <3>2, <3>3, <3>4, <3>5, EndsInside
    <3>7. p <= r
      BY <1>3, <3>1, <3>2, <3>4, <3>6
    <3> QED
      BY <1>3, <1>2, <3>1, <3>7
  <2> QED
    BY <2>1, <2>2
<1> QED
  BY <1>4, <1>5, <1>6 DEF r, c

\* A table that is right to d, and its next entry.
LEMMA TableGrows ==
  ASSUME KmpTypes, NEW d \in 0..Kmp!m - 1, TableTo(d), NEW new,
         new = Kmp!Back(pattern[d + 1], A[d]) + 1,
         A' = [k \in DOMAIN A \union {d + 1} |-> IF k = d + 1 THEN new ELSE A[k]],
         UNCHANGED pattern
  PROVE  TableTo(d + 1)'
<1>1. Kmp!m \in Nat /\ d \in Nat /\ d \in 0..Kmp!m /\ DOMAIN A = 0..d
  BY DEF KmpTypes, Kmp!m, TableTo
<1>2. IsLongest(pattern, d, d, A[d])
  BY <1>1 DEF TableTo
<1>3. /\ new \in 0..d /\ EndsIn(pattern, d + 1, new)
      /\ \A k \in 0..d : EndsIn(pattern, d + 1, k) => k <= new
  BY <1>1, <1>2, Advances
<1>4. IsLongest(pattern, d + 1, d + 1, new)
  <2>1. new \in -1..(d + 1) - 1 /\ (d + 1) - 1 = d
    BY <1>1, <1>3
  <2> QED
    BY <1>3, <2>1 DEF IsLongest
<1>5. /\ DOMAIN A' = 0..d + 1 /\ A'[d + 1] = new
      /\ \A k \in 0..d : A'[k] = A[k]
  BY <1>1
<1>6. ASSUME NEW k \in 0..d + 1 PROVE IsLongest(pattern, k, k, A'[k])
  <2>1. CASE k = d + 1
    BY <1>4, <1>5, <2>1
  <2>2. CASE k # d + 1
    <3>1. k \in 0..d
      BY <1>1, <2>2
    <3> QED
      BY <1>5, <3>1 DEF TableTo
  <2> QED
    BY <2>1, <2>2
<1> QED
  BY <1>5, <1>6, ZenonT(60) DEF TableTo, IsLongest, EndsIn

\* The occurrences found with one letter more.
LEMMA HitsNext ==
  ASSUME KmpTypes, NEW x \in 0..Len(file)
  PROVE  /\ IsFiniteSet(Hits(x)) /\ Cardinality(Hits(x)) \in 0..x
         /\ EndsIn(file, x + 1, Kmp!m) =>
              Cardinality(Hits(x + 1)) = Cardinality(Hits(x)) + 1
         /\ ~EndsIn(file, x + 1, Kmp!m) => Hits(x + 1) = Hits(x)
<1>1. x \in Nat /\ Kmp!m \in Nat /\ IsFiniteSet(1..x) /\ Cardinality(1..x) = x
  BY FS_Interval DEF KmpTypes, Kmp!m
<1>2. Hits(x) \subseteq 1..x
  BY <1>1 DEF Hits
<1>3. IsFiniteSet(Hits(x)) /\ Cardinality(Hits(x)) <= x /\ Cardinality(Hits(x)) \in Nat
  BY <1>1, <1>2, FS_Subset, FS_CardinalityType
<1>4. x + 1 \notin Hits(x)
  BY <1>1 DEF Hits
<1>5. ASSUME EndsIn(file, x + 1, Kmp!m) PROVE Cardinality(Hits(x + 1)) = Cardinality(Hits(x)) + 1
  <2>1. Kmp!m <= x + 1
    BY <1>1, <1>5 DEF EndsIn
  <2>2. Hits(x + 1) = Hits(x) \union {x + 1}
    BY <1>1, <1>5, <2>1 DEF Hits
  <2> QED
    BY <1>3, <1>4, <2>2, FS_AddElement
<1>6. ASSUME ~EndsIn(file, x + 1, Kmp!m) PROVE Hits(x + 1) = Hits(x)
  BY <1>1, <1>6 DEF Hits
<1> QED
  BY <1>1, <1>3, <1>5, <1>6

\* One round of the search.
LEMMA SearchRound ==
  ASSUME Kmp!KmpAssumption, KmpInv, Kmp!Search
  PROVE  KmpInv'
<1> DEFINE k == Kmp!Back(file[ki + 1], kj) + 1
<1>1. /\ kstate = "search" /\ ki < kn
      /\ IF k = Kmp!m THEN found' = found + 1 /\ kj' = A[Kmp!m]
                      ELSE kj' = k /\ UNCHANGED found
      /\ ki' = ki + 1
      /\ UNCHANGED <<file, pattern, kstate, kn, capacity, A>>
  BY DEF Kmp!Search, Kmp!input
<1>2. /\ KmpTypes /\ Kmp!m \in Nat /\ kn = Len(file) /\ Kmp!m <= kn /\ TableTo(Kmp!m)
      /\ ki \in 0..kn /\ found = Cardinality(Hits(ki)) /\ kn \in Nat /\ ki \in Nat
  BY <1>1 DEF KmpInv, TableBuilt, Searched, KmpTypes, Kmp!m
<1>3. /\ k \in 0..Kmp!m
      /\ k = Kmp!m <=> EndsIn(file, ki + 1, Kmp!m)
      /\ Kmp!m > 0 => IsLongest(file, ki + 1, Kmp!m, kj')
      /\ Kmp!m = 0 => kj' \in {-1, 0}
  <2>1. CASE Kmp!m = 0
    <3>1. kj \in -1..Kmp!m /\ Kmp!m \in 0..Kmp!m
      BY <1>2, <2>1 DEF KmpTypes
    <3>2. \A x \in -1..Kmp!m :
            /\ Kmp!Back(file[ki + 1], x) \in -1..x
            /\ Kmp!Back(file[ki + 1], x) # -1 => Kmp!Back(file[ki + 1], x) < Kmp!m
      BY <1>2, <3>1, BackFinds
    <3>3. k = 0
      BY <2>1, <3>1, <3>2
    <3>4. EndsIn(file, ki + 1, 0)
      BY <1>2 DEF EndsIn
    <3>5. A[0] = -1
      BY <1>2, <2>1 DEF TableTo, IsLongest
    <3> QED
      BY <1>1, <2>1, <3>3, <3>4, <3>5
  <2>2. CASE Kmp!m # 0
    <3>1. IsLongest(file, ki, Kmp!m, kj)
      BY <1>1, <2>2 DEF KmpInv, Searched
    <3>2. Kmp!m \in 0..Kmp!m
      BY <1>2
    <3>3. /\ k \in 0..Kmp!m /\ EndsIn(file, ki + 1, k)
          /\ \A x \in 0..Kmp!m : EndsIn(file, ki + 1, x) => x <= k
      BY <1>2, <3>1, <3>2, Advances
    <3> HIDE DEF k
    <3>4. k = Kmp!m <=> EndsIn(file, ki + 1, Kmp!m)
      BY <1>2, <3>2, <3>3
    <3>5. CASE k = Kmp!m
      <4> DEFINE f == A[Kmp!m]
      <4>1. IsLongest(pattern, Kmp!m, Kmp!m, f) /\ kj' = f
        BY <1>1, <1>2, <3>2, <3>5 DEF TableTo
      <4>2. EndsIn(file, ki + 1, Kmp!m) /\ ki + 1 \in Nat
        BY <1>2, <3>3, <3>5
      <4> HIDE DEF f
      <4>3. f \in -1..Kmp!m - 1
        BY <4>1 DEF IsLongest
      <4>4. ASSUME f # -1 PROVE EndsIn(file, ki + 1, f)
        <5>1. f \in Nat /\ EndsIn(pattern, Kmp!m, f)
          BY <4>1, <4>3, <4>4 DEF IsLongest
        <5> QED
          BY <1>2, <4>2, <5>1, EndsThrough
      <4>5. ASSUME NEW x \in 0..Kmp!m - 1, EndsIn(file, ki + 1, x) PROVE x <= f
        <5>1. x \in Nat /\ x <= Kmp!m
          BY <1>2
        <5>2. EndsIn(pattern, Kmp!m, x)
          BY <1>2, <4>2, <4>5, <5>1, EndsInside
        <5> QED
          BY <4>1, <5>2 DEF IsLongest
      <4>6. IsLongest(file, ki + 1, Kmp!m, kj')
        BY <4>1, <4>3, <4>4, <4>5 DEF IsLongest
      <4> QED
        BY <2>2, <3>3, <3>4, <4>6
    <3>6. CASE k # Kmp!m
      <4>1. kj' = k /\ k \in -1..Kmp!m - 1
        BY <1>1, <1>2, <3>3, <3>6
      <4>2. \A x \in 0..Kmp!m - 1 : x \in 0..Kmp!m
        BY <1>2
      <4>3. IsLongest(file, ki + 1, Kmp!m, kj')
        BY <3>3, <4>1, <4>2 DEF IsLongest
      <4> QED
        BY <2>2, <3>3, <3>4, <4>3
    <3> QED
      BY <3>5, <3>6
  <2> QED
    BY <2>1, <2>2
<1> HIDE DEF k
<1>4. /\ found' = Cardinality(Hits(ki + 1)) /\ found' \in 0..Len(file)
  <2>1. ki \in 0..Len(file) /\ ki + 1 \in 0..Len(file)
    BY <1>1, <1>2
  <2>2. Cardinality(Hits(ki + 1)) \in 0..ki + 1
    BY <1>2, <2>1, HitsNext
  <2>3. found' = Cardinality(Hits(ki + 1))
    BY <1>1, <1>2, <1>3, <2>1, HitsNext
  <2> QED
    BY <1>2, <2>1, <2>2, <2>3
<1>5. Kmp!m' = Kmp!m /\ (TableTo(Kmp!m) => TableTo(Kmp!m)')
  BY <1>1 DEF Kmp!m, TableTo, IsLongest, EndsIn
<1>6. KmpTypes'
  <2>1. kj' \in -1..Kmp!m
    BY <1>2, <1>3 DEF IsLongest
  <2> QED
    BY <1>1, <1>2, <1>4, <1>5, <2>1 DEF KmpTypes
<1>7. TableBuilt'
  <2>1. Kmp!m \in 0..Kmp!m
    BY <1>2
  <2> QED
    BY <1>1, <1>2, <1>5, <2>1 DEF TableBuilt
<1>8. Searched'
  <2>1. Hits(ki + 1) = Hits(ki)'
    BY <1>1, <1>5 DEF Hits, EndsIn
  <2>2. IsLongest(file, ki + 1, Kmp!m, kj') => IsLongest(file, ki, Kmp!m, kj)'
    BY <1>1, <1>5 DEF IsLongest, EndsIn
  <2>3. ki' \in 0..kn'
    BY <1>1, <1>2
  <2> QED
    BY <1>1, <1>2, <1>3, <1>4, <1>5, <2>1, <2>2, <2>3 DEF Searched
<1> QED
  BY <1>6, <1>7, <1>8 DEF KmpInv

\* kmp.c starts with an empty buffer and the first entry of the table.
LEMMA KmpInitially == ASSUME Kmp!KmpAssumption, Kmp!Init PROVE KmpInv
<1> USE DEF Kmp!Init, Kmp!KmpAssumption
<1>1. \A max \in Nat : \A s \in Kmp!Strings(max) : s \in Seq(Letters)
  BY DEF Kmp!Strings
<1>2. file \in Seq(Letters) /\ pattern \in Seq(Letters)
  BY <1>1
<1>3. Kmp!m \in Nat /\ Len(file) \in Nat
  BY <1>2 DEF Kmp!m
<1>4. KmpTypes
  BY <1>2, <1>3 DEF KmpTypes
<1>5. TableTo(0)
  <2>1. DOMAIN A = 0..0 /\ A[0] = -1
    OBVIOUS
  <2>2. IsLongest(pattern, 0, 0, -1)
    BY DEF IsLongest
  <2> QED
    BY <2>1, <2>2 DEF TableTo
<1>6. TableBuilt
  BY <1>3, <1>5 DEF TableBuilt
<1> QED
  BY <1>4, <1>6 DEF KmpInv, Searched

\* Steps that leave the table and the counters alone.
LEMMA KmpKeeps ==
  ASSUME UNCHANGED <<file, pattern, A>>
  PROVE  /\ Kmp!m' = Kmp!m
         /\ \A d : TableTo(d) => TableTo(d)'
<1>1. Kmp!m' = Kmp!m
  BY DEF Kmp!m
<1>2. ASSUME NEW d, TableTo(d) PROVE TableTo(d)'
  BY <1>2 DEF TableTo, IsLongest, EndsIn
<1> QED
  BY <1>1, <1>2

\* Every step of kmp.c preserves its invariant.
LEMMA KmpStep ==
  ASSUME Kmp!KmpAssumption, KmpInv, [Kmp!Next]_(Kmp!vars)
  PROVE  KmpInv'
<1>0. Kmp!m \in Nat /\ Len(file) \in Nat
  BY DEF KmpInv, KmpTypes, Kmp!m
<1>1. ASSUME NEW r \in 1..READ_SIZE, Kmp!Read(r) PROVE KmpInv'
  <2>1. /\ kstate = "read" /\ kn + r <= Len(file) /\ kn' = kn + r
        /\ capacity' = IF capacity < (kn + r) + READ_SIZE THEN 2 * capacity ELSE capacity
        /\ UNCHANGED <<file, pattern, kstate, A, ki, kj, found>>
    BY <1>1 DEF Kmp!Read, Kmp!input, Kmp!Grown
  <2>2. Kmp!m' = Kmp!m /\ \A d : TableTo(d) => TableTo(d)'
    BY <2>1, KmpKeeps
  <2>3. KmpTypes'
    BY <2>1, <2>2 DEF KmpInv, KmpTypes, Kmp!KmpAssumption
  <2>4. TableBuilt'
    BY <2>1, <2>2 DEF KmpInv, TableBuilt
  <2> QED
    BY <2>1, <2>3, <2>4 DEF KmpInv, Searched
<1>2. CASE Kmp!ReadEnd
  <2>1. /\ kstate = "read" /\ kn = Len(file)
        /\ kstate' = IF Kmp!m > kn THEN "done" ELSE "table"
        /\ UNCHANGED <<file, pattern, kn, capacity, A, ki, kj, found>>
    BY <1>2 DEF Kmp!ReadEnd, Kmp!input
  <2>2. Kmp!m' = Kmp!m /\ \A d : TableTo(d) => TableTo(d)'
    BY <2>1, KmpKeeps
  <2>3. KmpTypes'
    BY <2>1, <2>2 DEF KmpInv, KmpTypes
  <2>4. TableTo(0) /\ ki = 0 /\ kj = -1 /\ found = 0
    BY <2>1 DEF KmpInv, TableBuilt
  <2>5. A[0] = -1
    BY <2>4 DEF TableTo, IsLongest
  <2>6. TableBuilt'
    BY <1>0, <2>1, <2>2, <2>4, <2>5 DEF TableBuilt
  <2>7. Searched'
    BY <1>0, <2>1, <2>2, <2>4 DEF Searched
  <2> QED
    BY <2>3, <2>6, <2>7 DEF KmpInv
<1>3. CASE Kmp!Fails
  <2>1. /\ kstate' = "failed"
        /\ UNCHANGED <<file, pattern, kn, capacity, A, ki, kj, found>>
    BY <1>3 DEF Kmp!Fails, Kmp!input
  <2>2. Kmp!m' = Kmp!m /\ \A d : TableTo(d) => TableTo(d)'
    BY <2>1, KmpKeeps
  <2>3. KmpTypes'
    BY <2>1, <2>2 DEF KmpInv, KmpTypes
  <2>4. TableBuilt'
    BY <2>1, <2>2 DEF KmpInv, TableBuilt
  <2> QED
    BY <2>1, <2>3, <2>4 DEF KmpInv, Searched
<1>4. CASE Kmp!Prefix
  <2>1. /\ kstate = "table" /\ ki < Kmp!m
        /\ kj' = Kmp!Back(pattern[ki + 1], kj) + 1
        /\ A' = [k \in DOMAIN A \union {ki + 1} |-> IF k = ki + 1 THEN kj' ELSE A[k]]
        /\ ki' = ki + 1
        /\ UNCHANGED <<file, pattern, kstate, kn, capacity, found>>
    BY <1>4 DEF Kmp!Prefix, Kmp!input
  <2>2. /\ KmpTypes /\ ki \in 0..Kmp!m - 1 /\ TableTo(ki) /\ kj = A[ki] /\ found = 0
        /\ ki \in Nat
    BY <1>0, <2>1 DEF KmpInv, TableBuilt
  <2>3. PICK d \in 0..Kmp!m - 1 : d = ki
    BY <2>2
  <2>4. Kmp!m' = Kmp!m
    BY <2>1 DEF Kmp!m
  <2>5. TableTo(ki)'
    <3>1. TableTo(d + 1)'
      BY <2>1, <2>2, <2>3, TableGrows
    <3>2. ki' = d + 1
      BY <2>1, <2>3
    <3> QED
      BY <3>1, <3>2 DEF TableTo
  <2>6. ki' \in 0..Kmp!m' /\ ki' \in 0..ki'
    BY <1>0, <2>1, <2>2, <2>4
  <2>7. kj' = A'[ki'] /\ kj' \in -1..Kmp!m
    <3>1. kj' = A'[ki']
      BY <2>1
    <3>2. IsLongest(pattern, ki, ki, A[ki])'
      BY <2>5, <2>6 DEF TableTo
    <3>3. A'[ki'] \in -1..ki' - 1
      BY <3>2 DEF IsLongest
    <3> QED
      BY <1>0, <2>4, <2>6, <3>1, <3>3
  <2>8. KmpTypes'
    <3>1. ki' \in Nat
      BY <2>1, <2>2
    <3> QED
      BY <2>1, <2>2, <2>4, <2>7, <3>1 DEF KmpTypes
  <2>9. TableBuilt'
    BY <2>1, <2>2, <2>5, <2>6, <2>7 DEF TableBuilt
  <2>10. Searched'
    BY <2>1, <2>4 DEF KmpInv, Searched
  <2> QED
    BY <2>8, <2>9, <2>10 DEF KmpInv
<1>5. CASE Kmp!StartSearch
  <2>1. /\ kstate = "table" /\ ki = Kmp!m /\ kstate' = "search" /\ ki' = 0 /\ kj' = 0
        /\ UNCHANGED <<file, pattern, kn, capacity, A, found>>
    BY <1>5 DEF Kmp!StartSearch, Kmp!input
  <2>2. Kmp!m' = Kmp!m /\ \A d : TableTo(d) => TableTo(d)'
    BY <2>1, KmpKeeps
  <2>3. TableTo(Kmp!m) /\ found = 0 /\ kn = Len(file) /\ Kmp!m <= kn
    BY <2>1 DEF KmpInv, TableBuilt, Searched
  <2>4. KmpTypes'
    BY <1>0, <2>1, <2>2 DEF KmpInv, KmpTypes
  <2>5. TableBuilt'
    <3>1. Kmp!m \in 0..Kmp!m
      BY <1>0
    <3> QED
      BY <2>1, <2>2, <2>3, <3>1 DEF TableBuilt
  <2>6. Hits(0)' = {} /\ Cardinality(Hits(0)') = 0
    BY <1>0, <2>2, FS_EmptySet DEF Hits
  <2>7. ASSUME Kmp!m # 0 PROVE IsLongest(file, 0, Kmp!m, 0)'
    BY <1>0, <2>2, <2>7 DEF IsLongest, EndsIn
  <2>8. Searched'
    BY <1>0, <2>1, <2>2, <2>3, <2>6, <2>7 DEF Searched, Hits, IsLongest, EndsIn
  <2> QED
    BY <2>4, <2>5, <2>8 DEF KmpInv
<1>6. CASE Kmp!Search
  BY <1>6, SearchRound
<1>7. CASE Kmp!Close
  <2>1. /\ kstate = "search" /\ kstate' = "done"
        /\ UNCHANGED <<file, pattern, kn, capacity, A, ki, kj, found>>
    BY <1>7 DEF Kmp!Close, Kmp!input
  <2>2. Kmp!m' = Kmp!m /\ \A d : TableTo(d) => TableTo(d)'
    BY <2>1, KmpKeeps
  <2>3. KmpTypes'
    BY <2>1, <2>2 DEF KmpInv, KmpTypes
  <2>4. TableBuilt'
    BY <2>1, <2>2 DEF KmpInv, TableBuilt
  <2>5. kn \in Nat /\ Kmp!m <= kn
    BY <1>0, <2>1 DEF KmpInv, KmpTypes, Searched
  <2>6. Searched'
    BY <1>0, <2>1, <2>2, <2>5 DEF Searched
  <2> QED
    BY <2>3, <2>4, <2>6 DEF KmpInv
<1>8. CASE UNCHANGED Kmp!vars
  <2>1. UNCHANGED <<file, pattern, kstate, kn, capacity, A, ki, kj, found>>
    BY <1>8 DEF Kmp!vars
  <2>2. Kmp!m' = Kmp!m /\ \A d : TableTo(d) => TableTo(d)'
    BY <2>1, KmpKeeps
  <2>3. KmpTypes' /\ TableBuilt'
    BY <2>1, <2>2 DEF KmpInv, KmpTypes, TableBuilt
  <2>4. Hits(ki)' = Hits(ki)
    BY <2>1, <2>2 DEF Hits, EndsIn
  <2>5. IsLongest(file, ki, Kmp!m, kj) => IsLongest(file, ki, Kmp!m, kj)'
    BY <2>1, <2>2 DEF IsLongest, EndsIn
  <2>6. Searched'
    BY <2>1, <2>2, <2>4, <2>5 DEF KmpInv, Searched
  <2> QED
    BY <2>3, <2>6 DEF KmpInv
<1> QED
  BY <1>1, <1>2, <1>3, <1>4, <1>5, <1>6, <1>7, <1>8 DEF Kmp!Next, Kmp!Ended

\* The reference definition, on slices, says the same as EndsIn, letter by letter.
LEMMA EndsSlice ==
  ASSUME KmpTypes, NEW t \in Seq(Letters), NEW x \in 0..Len(t),
         NEW l \in 0..Kmp!m, l <= x
  PROVE  LET s == SubSeq(t, 1, x)
         IN Len(s) = x /\ (Kmp!Ends(s, l) = SubSeq(pattern, 1, l) <=> EndsIn(t, x, l))
<1> DEFINE s == SubSeq(t, 1, x)
<1>1. /\ pattern \in Seq(Letters) /\ Kmp!m \in Nat /\ Len(pattern) = Kmp!m
      /\ x \in Nat /\ l \in Nat /\ x <= Len(t)
  BY DEF KmpTypes, Kmp!m
<1>2. s \in Seq(Letters) /\ Len(s) = x /\ \A k \in 1..x : s[k] = t[k]
  <2>1. \A k \in 1..x : t[k] \in Letters
    BY <1>1
  <2> QED
    BY <1>1, <2>1, SubSeqProperties
<1> HIDE DEF s
<1> DEFINE e == SubSeq(s, x - l + 1, x)
           p == SubSeq(pattern, 1, l)
<1>3. Kmp!Ends(s, l) = e
  BY <1>2 DEF Kmp!Ends
<1>4. e \in Seq(Letters) /\ Len(e) = l /\ \A q \in 1..l : e[q] = t[x - l + q]
  <2>1. \A k \in x - l + 1..x : s[k] \in Letters /\ k \in 1..x
    BY <1>1, <1>2
  <2>2. /\ e \in Seq(Letters)
        /\ Len(e) = IF x - l + 1 <= x THEN x - (x - l + 1) + 1 ELSE 0
        /\ \A q \in 1..x - (x - l + 1) + 1 : e[q] = s[(x - l + 1) + q - 1]
    BY <1>1, <2>1, SubSeqProperties
  <2>3. Len(e) = l
    BY <1>1, <2>2
  <2>4. ASSUME NEW q \in 1..l PROVE e[q] = t[x - l + q]
    <3>1. q \in 1..x - (x - l + 1) + 1 /\ (x - l + 1) + q - 1 = x - l + q /\ x - l + q \in 1..x
      BY <1>1
    <3> HIDE DEF e
    <3>2. e[q] = s[x - l + q]
      BY <2>2, <3>1
    <3> QED
      BY <1>2, <3>1, <3>2
  <2> QED
    BY <2>2, <2>3, <2>4
<1>5. p \in Seq(Letters) /\ Len(p) = l /\ \A q \in 1..l : p[q] = pattern[q]
  <2>1. \A k \in 1..l : pattern[k] \in Letters
    BY <1>1
  <2> QED
    BY <1>1, <2>1, SubSeqProperties
<1> HIDE DEF e, p
<1>6. e = p <=> \A q \in 1..l : e[q] = p[q]
  BY <1>4, <1>5, SeqEqual
<1>7. e = p <=> EndsIn(t, x, l)
  <2>1. (\A q \in 1..l : e[q] = p[q]) <=> \A q \in 1..l : t[x - l + q] = pattern[q]
    BY <1>4, <1>5
  <2>2. l \in 0..x
    BY <1>1
  <2> QED
    BY <1>6, <2>1, <2>2 DEF EndsIn
<1> QED
  BY <1>2, <1>3, <1>7 DEF s, p

\* So does the longest of them.
LEMMA LongestIs ==
  ASSUME KmpTypes, NEW t \in Seq(Letters), NEW x \in 0..Len(t),
         NEW limit \in 0..Kmp!m, NEW l, IsLongest(t, x, limit, l)
  PROVE  l = Kmp!Longest(SubSeq(t, 1, x), limit)
<1> DEFINE s == SubSeq(t, 1, x)
           fits == {k \in 0..limit - 1 :
                      k <= Len(s) /\ Kmp!Ends(s, k) = SubSeq(pattern, 1, k)}
<1>1. Kmp!m \in Nat /\ limit \in Nat /\ x \in Nat /\ 0 \in 0..Kmp!m /\ 0 <= x
  BY DEF KmpTypes, Kmp!m
<1>2. Len(s) = x
  BY <1>1, EndsSlice
<1> HIDE DEF s
<1>3. \A k \in 0..limit - 1 : k \in fits <=> EndsIn(t, x, k)
  <2> SUFFICES ASSUME NEW k \in 0..limit - 1 PROVE k \in fits <=> EndsIn(t, x, k)
    OBVIOUS
  <2>1. k \in 0..Kmp!m
    BY <1>1
  <2>2. CASE k <= x
    BY <1>2, <2>1, <2>2, EndsSlice DEF s
  <2>3. CASE ~ (k <= x)
    BY <1>1, <1>2, <2>3 DEF EndsIn
  <2> QED
    BY <2>2, <2>3
<1>4. Kmp!Longest(s, limit) =
        IF fits = {} THEN -1 ELSE CHOOSE k \in fits : \A y \in fits : y <= k
  BY DEF Kmp!Longest
<1>5. fits \subseteq 0..limit - 1
  OBVIOUS
<1> HIDE DEF fits
<1>6. CASE l = -1
  <2>1. fits = {}
    BY <1>1, <1>3, <1>5, <1>6 DEF IsLongest
  <2> QED
    BY <1>4, <1>6, <2>1 DEF s
<1>7. CASE l # -1
  <2>1. l \in 0..limit - 1 /\ EndsIn(t, x, l)
    BY <1>1, <1>7 DEF IsLongest
  <2>2. l \in fits /\ \A y \in fits : y <= l
    BY <1>3, <1>5, <2>1 DEF IsLongest
  <2>3. \A k \in fits : (\A y \in fits : y <= k) => k = l
    BY <1>1, <1>5, <2>2
  <2>4. (CHOOSE k \in fits : \A y \in fits : y <= k) = l
    BY <2>2, <2>3
  <2> QED
    BY <1>4, <2>2, <2>4 DEF s
<1> QED
  BY <1>6, <1>7

\* What the invariant says of the table and of the matches.
LEMMA KmpPromises == ASSUME Kmp!KmpAssumption, KmpInv PROVE Kmp!TypeOK /\ Kmp!MatchesFound
<1>1. /\ KmpTypes /\ Kmp!m \in Nat /\ Len(pattern) = Kmp!m /\ pattern \in Seq(Letters)
      /\ file \in Seq(Letters) /\ Len(file) \in Nat
  BY DEF KmpInv, KmpTypes, Kmp!m
<1>2. PICK d \in 0..Kmp!m : TableTo(d)
  BY DEF KmpInv, TableBuilt
<1>3. Kmp!TypeOK
  <2>1. DOMAIN A \subseteq 0..Kmp!m
    BY <1>1, <1>2 DEF TableTo
  <2> QED
    BY <1>1, <2>1 DEF KmpTypes, Kmp!TypeOK
<1>4. ASSUME NEW k \in DOMAIN A PROVE A[k] = Kmp!Longest(SubSeq(pattern, 1, k), k)
  <2>1. k \in 0..Kmp!m /\ k \in 0..Len(pattern) /\ IsLongest(pattern, k, k, A[k])
    BY <1>1, <1>2 DEF TableTo
  <2> QED
    BY <1>1, <2>1, LongestIs
<1>5. ASSUME kstate = "search"
      PROVE  LET seen == SubSeq(file, 1, ki)
                 hits == {k \in Kmp!m..ki : k > 0 /\ SubSeq(file, k - Kmp!m + 1, k) = pattern}
             IN /\ kn = Len(file)
                /\ found = Kmp!Cardinality(hits)
                /\ Kmp!m > 0 => kj = Kmp!Longest(seen, Kmp!m)
  <2> DEFINE hits == {k \in Kmp!m..ki : k > 0 /\ SubSeq(file, k - Kmp!m + 1, k) = pattern}
  <2>1. /\ kn = Len(file) /\ ki \in 0..Len(file) /\ ki \in Nat /\ found = Cardinality(Hits(ki))
        /\ Kmp!m > 0 => IsLongest(file, ki, Kmp!m, kj)
    BY <1>1, <1>5 DEF KmpInv, Searched
  <2>2. Kmp!m > 0 => kj = Kmp!Longest(SubSeq(file, 1, ki), Kmp!m)
    <3>1. Kmp!m \in 0..Kmp!m
      BY <1>1
    <3> QED
      BY <1>1, <2>1, <3>1, LongestIs
  <2>3. ASSUME NEW k \in Kmp!m..ki, k > 0
        PROVE  SubSeq(file, k - Kmp!m + 1, k) = pattern <=> EndsIn(file, k, Kmp!m)
    <3> DEFINE e == SubSeq(file, k - Kmp!m + 1, k)
    <3>1. k \in Nat /\ k <= Len(file) /\ Kmp!m <= k
      BY <1>1, <2>1, <2>3
    <3>2. \A q \in k - Kmp!m + 1..k : file[q] \in Letters
      BY <1>1, <3>1
    <3>3. /\ e \in Seq(Letters)
          /\ Len(e) = IF k - Kmp!m + 1 <= k THEN k - (k - Kmp!m + 1) + 1 ELSE 0
          /\ \A q \in 1..k - (k - Kmp!m + 1) + 1 : e[q] = file[(k - Kmp!m + 1) + q - 1]
      BY <1>1, <3>1, <3>2, SubSeqProperties
    <3> HIDE DEF e
    <3>4. Len(e) = Len(pattern)
      BY <1>1, <3>1, <3>3
    <3>5. ASSUME NEW q \in 1..Kmp!m PROVE e[q] = file[k - Kmp!m + q]
      <4>1. /\ q \in 1..k - (k - Kmp!m + 1) + 1
            /\ (k - Kmp!m + 1) + q - 1 = k - Kmp!m + q
        BY <1>1, <3>1
      <4> QED
        BY <3>3, <4>1
    <3>6. e = pattern <=> \A q \in 1..Kmp!m : e[q] = pattern[q]
      BY <1>1, <3>3, <3>4, SeqEqual
    <3>7. e = pattern <=> EndsIn(file, k, Kmp!m)
      BY <1>1, <3>1, <3>5, <3>6 DEF EndsIn
    <3> QED
      BY <3>7 DEF e
  <2>4. hits = Hits(ki)
    BY <2>3 DEF Hits
  <2>5. Kmp!Cardinality(hits) = Cardinality(hits)
    BY DEF Kmp!Cardinality, Cardinality
  <2> QED
    BY <2>1, <2>2, <2>4, <2>5
<1>6. kstate = "done" /\ Kmp!m > kn => found = 0
  BY DEF KmpInv, Searched
<1> QED
  BY <1>3, <1>4, <1>5, <1>6 DEF Kmp!MatchesFound

-----------------------------------------------------------------------------
(* insertion_sort.c *)

\* The array with the element that is inserted where the loop has got to.
Filled == [arr EXCEPT ![j] = tmp]

\* g holds over a..x what was given there, and the array is as given elsewhere.
SameElements(g, x) ==
  /\ \A v \in Values : Insertion!Occurs(g, a..x, v) = Insertion!Occurs(given, a..x, v)
  /\ \A y \in Insertion!Indices \ a..x : arr[y] = given[y]

\* In the inner loop: apart from place j, whose element has been copied to the next
\* one, the part up to i is sorted, and what is behind j is greater than tmp.
Shifting ==
  at = "inner" =>
    /\ SameElements(Filled, i) /\ a < i
    /\ \A x, y \in a..i : x < y /\ x # j /\ y # j => arr[x] <= arr[y]
    /\ \A x \in j + 1..i : arr[x] > tmp
    /\ j < i => arr[j] > tmp

\* Behind it: tmp is at place j, or j is the first place and tmp is less than what
\* is still there.
Placed ==
  at = "least" =>
    /\ SameElements(Filled, i) /\ a < i /\ Insertion!Sorted(Filled, a..i)
    /\ IF j > a THEN arr[j] = tmp /\ arr[a] <= tmp ELSE arr[a] > tmp

\* The inductive invariant of insertion_sort.c.
InsertionInv ==
  /\ Insertion!TypeOK /\ given \in [Insertion!Indices -> Values] /\ a < i
  /\ Insertion!SortsRange /\ Shifting /\ Placed

\* Counting an element more.
LEMMA OccursMore ==
  ASSUME NEW g, NEW S, IsFiniteSet(S), NEW x, x \notin S, NEW v
  PROVE  /\ Insertion!Occurs(g, S, v) \in Nat
         /\ Insertion!Occurs(g, S \union {x}, v) =
              Insertion!Occurs(g, S, v) + (IF g[x] = v THEN 1 ELSE 0)
<1> DEFINE T == {y \in S : g[y] = v}
           U == {y \in S \union {x} : g[y] = v}
<1>1. Insertion!Occurs(g, S, v) = Cardinality(T)
  BY DEF Insertion!Occurs, Insertion!Cardinality, Cardinality
<1>2. Insertion!Occurs(g, S \union {x}, v) = Cardinality(U)
  BY DEF Insertion!Occurs, Insertion!Cardinality, Cardinality
<1>3. IsFiniteSet(T)
  <2>1. T \subseteq S
    OBVIOUS
  <2> QED
    BY <2>1, FS_Subset
<1>4. Cardinality(T) \in Nat
  BY <1>3, FS_CardinalityType
<1>5. CASE g[x] = v
  <2>1. U = T \union {x} /\ x \notin T
    BY <1>5
  <2> HIDE DEF T, U
  <2>2. Cardinality(U) = Cardinality(T) + 1
    BY <1>3, <2>1, FS_AddElement
  <2> QED
    BY <1>1, <1>2, <1>4, <1>5, <2>2
<1>6. CASE g[x] # v
  <2>1. U = T
    BY <1>6
  <2> HIDE DEF T, U
  <2> QED
    BY <1>1, <1>2, <1>4, <1>6, <2>1
<1> QED
  BY <1>5, <1>6

\* Only the elements counted count.
LEMMA OccursSame ==
  ASSUME NEW g, NEW h, NEW S, \A x \in S : g[x] = h[x], NEW v
  PROVE  Insertion!Occurs(g, S, v) = Insertion!Occurs(h, S, v)
<1>1. {x \in S : g[x] = v} = {x \in S : h[x] = v}
  OBVIOUS
<1> QED
  BY <1>1 DEF Insertion!Occurs

\* Two elements may change places.
LEMMA OccursSwapped ==
  ASSUME NEW g, NEW h, NEW S, IsFiniteSet(S), NEW x \in S, NEW y \in S, x # y,
         g[x] = h[y], g[y] = h[x], \A z \in S \ {x, y} : g[z] = h[z], NEW v
  PROVE  Insertion!Occurs(g, S, v) = Insertion!Occurs(h, S, v)
<1> DEFINE T == S \ {x, y}
           U == T \union {x}
<1>1. IsFiniteSet(T) /\ x \notin T
  BY FS_Subset
<1>2. IsFiniteSet(U) /\ y \notin U /\ S = U \union {y}
  BY <1>1, FS_AddElement
<1>3. \A z \in T : g[z] = h[z]
  OBVIOUS
<1> HIDE DEF T
<1>4. Insertion!Occurs(g, T, v) = Insertion!Occurs(h, T, v)
  BY <1>3, OccursSame
<1>5. /\ Insertion!Occurs(g, T, v) \in Nat
      /\ Insertion!Occurs(g, U, v) = Insertion!Occurs(g, T, v) + (IF g[x] = v THEN 1 ELSE 0)
      /\ Insertion!Occurs(h, U, v) = Insertion!Occurs(h, T, v) + (IF h[x] = v THEN 1 ELSE 0)
  BY <1>1, OccursMore
<1> HIDE DEF U
<1>6. /\ Insertion!Occurs(g, S, v) = Insertion!Occurs(g, U, v) + (IF g[y] = v THEN 1 ELSE 0)
      /\ Insertion!Occurs(h, S, v) = Insertion!Occurs(h, U, v) + (IF h[y] = v THEN 1 ELSE 0)
  BY <1>2, OccursMore
<1> QED
  BY <1>4, <1>5, <1>6

\* insertion_sort starts with a part of one element.
LEMMA InsertionInitially ==
  ASSUME Insertion!InsertionAssumption, Insertion!Init PROVE InsertionInv
<1> USE DEF Insertion!Init, Insertion!InsertionAssumption
<1>1. Insertion!TypeOK /\ a < i /\ a \in Nat
  BY DEF Insertion!TypeOK, Insertion!Indices
<1>2. a..i - 1 = {a}
  BY <1>1
<1>3. Insertion!SortsRange
  BY <1>1, <1>2 DEF Insertion!SortsRange, Insertion!Sorted
<1> QED
  BY <1>1, <1>3 DEF InsertionInv, Shifting, Placed

\* The outer loop takes the next element.
LEMMA OuterStep ==
  ASSUME Insertion!InsertionAssumption, InsertionInv, Insertion!Outer PROVE InsertionInv'
<1> USE DEF InsertionInv, Insertion!InsertionAssumption
<1>1. /\ at = "outer" /\ UNCHANGED <<arr, a, b, given, i>>
      /\ IF i < b THEN at' = "inner" /\ tmp' = arr[i] /\ j' = i
                  ELSE at' = "done" /\ UNCHANGED <<tmp, j>>
  BY DEF Insertion!Outer, Insertion!args
<1>2. a \in Nat /\ i \in Nat /\ b \in Nat /\ b <= Size /\ (i < b => i \in Insertion!Indices)
  BY DEF Insertion!TypeOK, Insertion!Indices
<1>3. Insertion!TypeOK'
  BY <1>1, <1>2 DEF Insertion!TypeOK
<1>4. CASE ~ (i < b)
  <2>1. Insertion!SortsRange'
    BY <1>1, <1>2, <1>4 DEF Insertion!SortsRange, Insertion!Sorted
  <2> QED
    BY <1>1, <1>3, <1>4, <2>1 DEF Shifting, Placed
<1>5. CASE i < b
  <2>1. at' = "inner" /\ tmp' = arr[i] /\ j' = i
    BY <1>1, <1>5
  <2>2. Filled' = arr
    BY <1>1, <2>1 DEF Filled, Insertion!TypeOK
  <2>3. /\ \A v \in Values : Insertion!Occurs(arr, a..i - 1, v) = Insertion!Occurs(given, a..i - 1, v)
        /\ \A y \in Insertion!Indices \ a..i - 1 : arr[y] = given[y]
        /\ Insertion!Sorted(arr, a..i - 1)
    BY <1>1 DEF Insertion!SortsRange
  <2>4. i \notin a..i - 1 /\ a..i = (a..i - 1) \union {i} /\ IsFiniteSet(a..i - 1)
    BY <1>2, FS_Interval
  <2>5. arr[i] = given[i]
    BY <1>2, <1>5, <2>3, <2>4
  <2>6. ASSUME NEW v \in Values
        PROVE  Insertion!Occurs(arr, a..i, v) = Insertion!Occurs(given, a..i, v)
    <3> DEFINE S == a..i - 1
    <3>1. i \notin S /\ a..i = S \union {i} /\ IsFiniteSet(S)
      BY <2>4
    <3>2. Insertion!Occurs(arr, S, v) = Insertion!Occurs(given, S, v)
      BY <2>3
    <3> HIDE DEF S, InsertionInv
    <3>3. /\ Insertion!Occurs(arr, S \union {i}, v)
               = Insertion!Occurs(arr, S, v) + (IF arr[i] = v THEN 1 ELSE 0)
          /\ Insertion!Occurs(given, S \union {i}, v)
               = Insertion!Occurs(given, S, v) + (IF given[i] = v THEN 1 ELSE 0)
      BY <3>1, OccursMore
    <3> QED
      BY <2>5, <3>1, <3>2, <3>3
  <2>7. SameElements(Filled, i)'
    BY <1>1, <2>2, <2>3, <2>4, <2>6 DEF SameElements
  <2>8. \A x, y \in a..i : x < y /\ x # i /\ y # i => arr[x] <= arr[y]
    BY <1>2, <2>3 DEF Insertion!Sorted
  <2>9. Shifting'
    BY <1>1, <1>2, <2>1, <2>7, <2>8 DEF Shifting
  <2> QED
    BY <1>1, <1>3, <2>1, <2>9 DEF Insertion!SortsRange, Placed
<1> QED
  BY <1>4, <1>5

\* A greater element is copied one place up.
LEMMA ShiftStep ==
  ASSUME Insertion!InsertionAssumption, InsertionInv, Insertion!Shift PROVE InsertionInv'
<1> USE DEF InsertionInv, Insertion!InsertionAssumption
<1>1. /\ at = "inner" /\ j > a /\ arr[j - 1] > tmp
      /\ arr' = [arr EXCEPT ![j] = arr[j - 1]] /\ j' = j - 1
      /\ UNCHANGED <<a, b, given, i, tmp, at>>
  BY DEF Insertion!Shift, Insertion!args
<1>2. /\ a \in Nat /\ i \in Nat /\ b \in Nat /\ b <= Size /\ j \in a..i /\ i < b /\ j \in Nat
      /\ Insertion!Indices = 0..Size - 1 /\ Size \in Nat
      /\ arr \in [Insertion!Indices -> Values] /\ tmp \in Values /\ Values \subseteq Int
  BY <1>1 DEF Insertion!TypeOK, Insertion!Indices
<1>3. j \in Insertion!Indices /\ j - 1 \in Insertion!Indices /\ j - 1 \in a..i
  BY <1>1, <1>2
<1>4. /\ arr' \in [Insertion!Indices -> Values] /\ arr'[j] = arr[j - 1]
      /\ \A x \in Insertion!Indices : x # j => arr'[x] = arr[x]
  BY <1>1, <1>2, <1>3
<1>5. Insertion!TypeOK'
  BY <1>1, <1>2, <1>3, <1>4 DEF Insertion!TypeOK
<1>6. \A x \in a..i : x \in Insertion!Indices
  BY <1>2
<1>7. SameElements(Filled, i)'
  <2> DEFINE g == Filled'
             h == Filled
  <2>1. g[j - 1] = tmp /\ g[j] = arr[j - 1] /\ h[j] = tmp /\ h[j - 1] = arr[j - 1]
    BY <1>1, <1>2, <1>3, <1>4 DEF Filled
  <2>2. \A z \in a..i \ {j - 1, j} : g[z] = h[z]
    BY <1>1, <1>2, <1>3, <1>4, <1>6 DEF Filled
  <2>3. IsFiniteSet(a..i)
    BY <1>2, FS_Interval
  <2>4. SameElements(h, i)
    BY <1>1 DEF Shifting
  <2> HIDE DEF g, h
  <2>5. j - 1 # j
    BY <1>2
  <2>6. ASSUME NEW v \in Values
        PROVE  Insertion!Occurs(g, a..i, v) = Insertion!Occurs(h, a..i, v)
    <3> DEFINE S == a..i
               p == j - 1
    <3>1. p \in S /\ j \in S /\ p # j /\ IsFiniteSet(S)
      BY <1>2, <1>3, <2>3, <2>5
    <3>2. g[p] = h[j] /\ g[j] = h[p] /\ \A z \in S \ {p, j} : g[z] = h[z]
      BY <2>1, <2>2
    <3> HIDE DEF S, p, InsertionInv
    <3>3. Insertion!Occurs(g, S, v) = Insertion!Occurs(h, S, v)
      BY <3>1, <3>2, OccursSwapped
    <3> QED
      BY <3>3 DEF S
  <2>7. \A v \in Values : Insertion!Occurs(g, a..i, v) = Insertion!Occurs(given, a..i, v)
    BY <2>4, <2>6 DEF SameElements
  <2>8. \A y \in Insertion!Indices \ a..i : arr'[y] = given[y]
    BY <1>2, <1>4, <2>4 DEF SameElements
  <2> QED
    BY <1>1, <2>7, <2>8 DEF SameElements, g
<1>8. ASSUME NEW x \in a..i, NEW y \in a..i, x < y, x # j - 1, y # j - 1
      PROVE  arr'[x] <= arr'[y]
  <2>0. \A u, w \in a..i : u < w /\ u # j /\ w # j => arr[u] <= arr[w]
    BY <1>1 DEF Shifting
  <2>1. CASE x = j
    BY <1>2, <1>3, <1>4, <1>6, <1>8, <2>0, <2>1
  <2>2. CASE y = j
    BY <1>2, <1>3, <1>4, <1>6, <1>8, <2>0, <2>2
  <2>3. CASE x # j /\ y # j
    BY <1>4, <1>6, <1>8, <2>0, <2>3
  <2> QED
    BY <2>1, <2>2, <2>3
<1>9. \A x \in (j - 1) + 1..i : arr'[x] > tmp
  <2> SUFFICES ASSUME NEW x \in (j - 1) + 1..i PROVE arr'[x] > tmp
    OBVIOUS
  <2>1. CASE x = j
    BY <1>1, <1>4, <2>1
  <2>2. CASE x # j
    <3>1. x \in j + 1..i /\ x \in Insertion!Indices
      BY <1>2, <2>2
    <3> QED
      BY <1>1, <1>4, <2>2, <3>1 DEF Shifting
  <2> QED
    BY <2>1, <2>2
<1>10. arr'[j - 1] > tmp
  BY <1>1, <1>2, <1>3, <1>4
<1>11. Shifting'
  BY <1>1, <1>7, <1>8, <1>9, <1>10 DEF Shifting
<1> QED
  BY <1>1, <1>5, <1>11 DEF Insertion!SortsRange, Placed

\* The inner loop ends.
LEMMA InsertStep ==
  ASSUME Insertion!InsertionAssumption, InsertionInv, Insertion!Insert PROVE InsertionInv'
<1> USE DEF InsertionInv, Insertion!InsertionAssumption
<1>1. /\ at = "inner" /\ (j > a => arr[j - 1] <= tmp)
      /\ arr' = IF j > a THEN Filled ELSE arr
      /\ at' = "least" /\ UNCHANGED <<a, b, given, i, j, tmp>>
  BY DEF Insertion!Insert, Insertion!args, Filled
<1>2. /\ a \in Nat /\ i \in Nat /\ b \in Nat /\ b <= Size /\ j \in a..i /\ i < b /\ j \in Nat
      /\ Insertion!Indices = 0..Size - 1 /\ Size \in Nat /\ a < i
      /\ arr \in [Insertion!Indices -> Values] /\ tmp \in Values /\ Values \subseteq Int
  BY <1>1 DEF Insertion!TypeOK, Insertion!Indices
<1>3. /\ j \in Insertion!Indices /\ \A x \in a..i : x \in Insertion!Indices
      /\ a \in a..i
  BY <1>2
<1>4. /\ Filled \in [Insertion!Indices -> Values] /\ Filled[j] = tmp
      /\ \A x \in Insertion!Indices : x # j => Filled[x] = arr[x]
  BY <1>2, <1>3 DEF Filled
<1>5. Filled' = Filled
  BY <1>1, <1>2, <1>3 DEF Filled
<1>6. arr' \in [Insertion!Indices -> Values]
  BY <1>1, <1>2, <1>4
<1>7. Insertion!TypeOK'
  BY <1>1, <1>2, <1>6 DEF Insertion!TypeOK
<1>8. /\ SameElements(Filled, i)
      /\ \A x, y \in a..i : x < y /\ x # j /\ y # j => arr[x] <= arr[y]
      /\ \A x \in j + 1..i : arr[x] > tmp
      /\ j < i => arr[j] > tmp
  BY <1>1 DEF Shifting
<1>9. SameElements(Filled, i)'
  <2>1. \A y \in Insertion!Indices \ a..i : arr'[y] = given[y]
    BY <1>1, <1>2, <1>4, <1>8 DEF SameElements
  <2> QED
    BY <1>1, <1>5, <1>8, <2>1 DEF SameElements
<1>10. Insertion!Sorted(Filled, a..i)
  <2> SUFFICES ASSUME NEW x \in a..i, NEW y \in a..i, x < y
               PROVE  Filled[x] <= Filled[y]
    BY DEF Insertion!Sorted
  <2>1. CASE y = j
    <3>1. j > a /\ j - 1 \in a..i /\ x \in Insertion!Indices /\ j - 1 \in Insertion!Indices
      BY <1>2, <1>3, <2>1
    <3>2. arr[x] <= arr[j - 1]
      <4>1. CASE x = j - 1
        <5>1. arr[x] \in Int
          BY <1>2, <3>1
        <5> QED
          BY <4>1, <5>1
      <4>2. CASE x # j - 1
        <5>1. x < j - 1 /\ x # j /\ j - 1 # j
          BY <1>2, <2>1, <4>2
        <5> QED
          BY <1>8, <3>1, <5>1
      <4> QED
        BY <4>1, <4>2
    <3>3. Filled[x] = arr[x] /\ Filled[y] = tmp
      BY <1>2, <1>4, <2>1, <3>1
    <3>4. arr[x] \in Int /\ arr[j - 1] \in Int /\ tmp \in Int
      BY <1>2, <3>1
    <3> QED
      BY <1>1, <3>1, <3>2, <3>3, <3>4
  <2>2. CASE x = j
    <3>1. y \in j + 1..i /\ y \in Insertion!Indices /\ y # j
      BY <1>2, <2>2
    <3>2. arr[y] > tmp /\ Filled[y] = arr[y] /\ Filled[x] = tmp
      BY <1>4, <1>8, <2>2, <3>1
    <3>3. arr[y] \in Int /\ tmp \in Int
      BY <1>2, <3>1
    <3> QED
      BY <3>2, <3>3
  <2>3. CASE x # j /\ y # j
    BY <1>3, <1>4, <1>8, <2>3
  <2> QED
    BY <2>1, <2>2, <2>3
<1>11. IF j > a THEN arr'[j] = tmp /\ arr'[a] <= tmp ELSE arr'[a] > tmp
  <2>1. CASE j > a
    <3>1. Filled[a] <= Filled[j]
      BY <1>2, <1>3, <1>10, <2>1 DEF Insertion!Sorted
    <3> QED
      BY <1>1, <1>4, <2>1, <3>1
  <2>2. CASE ~ (j > a)
    <3>1. j = a /\ j < i
      BY <1>2, <2>2
    <3> QED
      BY <1>1, <1>8, <2>2, <3>1
  <2> QED
    BY <2>1, <2>2
<1>12. Insertion!Sorted(Filled, a..i)'
  BY <1>1, <1>5, <1>10 DEF Insertion!Sorted
<1>13. Placed'
  BY <1>1, <1>2, <1>9, <1>11, <1>12 DEF Placed
<1> QED
  BY <1>1, <1>2, <1>7, <1>13 DEF Insertion!SortsRange, Shifting

\* The last test puts tmp at the first place if it is still to be put anywhere.
LEMMA LeastStep ==
  ASSUME Insertion!InsertionAssumption, InsertionInv, Insertion!Least PROVE InsertionInv'
<1> USE DEF InsertionInv, Insertion!InsertionAssumption
<1>1. /\ at = "least" /\ i' = i + 1 /\ at' = "outer"
      /\ arr' = IF arr[a] > tmp THEN [arr EXCEPT ![a] = tmp] ELSE arr
      /\ UNCHANGED <<a, b, given, j, tmp>>
  BY DEF Insertion!Least, Insertion!args
<1>2. /\ a \in Nat /\ i \in Nat /\ b \in Nat /\ b <= Size /\ j \in a..i /\ i < b /\ j \in Nat
      /\ Insertion!Indices = 0..Size - 1 /\ Size \in Nat /\ a < i
      /\ arr \in [Insertion!Indices -> Values] /\ tmp \in Values /\ Values \subseteq Int
  BY <1>1 DEF Insertion!TypeOK, Insertion!Indices
<1>3. j \in Insertion!Indices /\ a \in Insertion!Indices
  BY <1>2
<1>4. /\ SameElements(Filled, i) /\ Insertion!Sorted(Filled, a..i)
      /\ IF j > a THEN arr[j] = tmp /\ arr[a] <= tmp ELSE arr[a] > tmp
  BY <1>1 DEF Placed
<1>5. arr' = Filled
  <2>1. CASE j > a
    <3>1. arr[j] = tmp /\ arr[a] <= tmp
      BY <1>4, <2>1
    <3>2. arr[a] \in Int /\ tmp \in Int
      BY <1>2, <1>3
    <3>3. ~ (arr[a] > tmp)
      BY <3>1, <3>2
    <3> QED
      BY <1>1, <1>2, <1>3, <3>1, <3>3 DEF Filled
  <2>2. CASE ~ (j > a)
    <3>1. j = a /\ arr[a] > tmp
      BY <1>2, <1>4, <2>2
    <3> QED
      BY <1>1, <3>1 DEF Filled
  <2> QED
    BY <2>1, <2>2
<1>6. Filled \in [Insertion!Indices -> Values]
  BY <1>2, <1>3 DEF Filled
<1>7. Insertion!TypeOK'
  BY <1>1, <1>2, <1>3, <1>5, <1>6 DEF Insertion!TypeOK
<1>8. i' - 1 = i
  BY <1>1, <1>2
<1>9. \A y \in Insertion!Indices \ a..i : arr'[y] = given[y]
  <2> SUFFICES ASSUME NEW y \in Insertion!Indices \ a..i PROVE arr'[y] = given[y]
    OBVIOUS
  <2>1. y # j
    BY <1>2
  <2>2. arr'[y] = arr[y]
    BY <1>2, <1>5, <2>1 DEF Filled
  <2> QED
    BY <1>4, <2>2 DEF SameElements
<1>10. Insertion!SortsRange'
  BY <1>1, <1>4, <1>5, <1>8, <1>9 DEF Insertion!SortsRange, SameElements, Insertion!Sorted
<1> QED
  BY <1>1, <1>2, <1>7, <1>10 DEF Shifting, Placed

\* Every step of insertion_sort preserves its invariant.
LEMMA InsertionStep ==
  ASSUME Insertion!InsertionAssumption, InsertionInv, [Insertion!Next]_(Insertion!vars)
  PROVE  InsertionInv'
<1>1. CASE UNCHANGED Insertion!vars
  <2>1. UNCHANGED <<arr, a, b, given, i, j, tmp, at>>
    BY <1>1 DEF Insertion!vars
  <2>2. Insertion!TypeOK' /\ Insertion!SortsRange'
    BY <2>1 DEF InsertionInv, Insertion!TypeOK, Insertion!SortsRange, Insertion!Sorted
  <2>3. Filled' = Filled
    BY <2>1 DEF Filled
  <2>4. SameElements(Filled, i)' <=> SameElements(Filled, i)
    BY <2>1, <2>3 DEF SameElements
  <2>5. Shifting' /\ Placed'
    BY <2>1, <2>3, <2>4 DEF InsertionInv, Shifting, Placed, Insertion!Sorted
  <2> QED
    BY <2>1, <2>2, <2>5 DEF InsertionInv
<1> QED
  BY <1>1, OuterStep, ShiftStep, InsertStep, LeastStep DEF Insertion!Next, Insertion!Done

-----------------------------------------------------------------------------
(* The run *)

StreamsInv == LoopInv /\ StreamInv /\ ReadInv /\ ShellInv /\ KmpInv /\ InsertionInv

\* A step of the run is a step of one program and a stutter of the others.
LEMMA StepOfOne ==
  ASSUME [Next]_vars
  PROVE  /\ [Loop!Next]_(Loop!vars) /\ [Stream!Next]_(Stream!vars)
         /\ [Shell!Next]_(Shell!vars) /\ [Reads!Next]_(Reads!vars)
         /\ [Kmp!Next]_(Kmp!vars) /\ [Insertion!Next]_(Insertion!vars)
<1> USE DEF Next, vars, InLoop, InStream, InShell, InRead, InKmp, InInsertion
<1>1. [Loop!Next]_(Loop!vars)
  BY DEF writing, Loop!vars
<1>2. [Stream!Next]_(Stream!vars)
  BY DEF stream, Stream!vars
<1>3. [Shell!Next]_(Shell!vars)
  BY DEF shell, Shell!vars
<1>4. [Reads!Next]_(Reads!vars)
  BY DEF reading, Reads!vars
<1>5. [Kmp!Next]_(Kmp!vars)
  BY DEF kmp, Kmp!vars
<1>6. [Insertion!Next]_(Insertion!vars)
  BY DEF insertion, Insertion!vars
<1> QED
  BY <1>1, <1>2, <1>3, <1>4, <1>5, <1>6

\* The conjunction of the programs' invariants is an invariant of the run.
LEMMA StreamsInvariant == FairSpec => []StreamsInv
<1>1. Init => StreamsInv
  BY StreamsAssumption, LoopInitially, StreamInitially, ReadInitially, ShellInitially,
     KmpInitially, InsertionInitially
     DEF Init, StreamsInv
<1>2. StreamsInv /\ [Next]_vars => StreamsInv'
  BY StreamsAssumption, StepOfOne, LoopStep, StreamStep, ReadStep, ShellStep, KmpStep,
     InsertionStep
     DEF StreamsInv
<1> QED
  BY <1>1, <1>2, PTL DEF FairSpec

\* Every write loop that returns has written its buffer and nothing else, if no
\* call was short; pipe.c's loop in any case.  For every length.
THEOREM WholeBufferWritten == FairSpec => []WholeBuffer
<1>1. StreamsInv => WholeBuffer
  BY StreamsAssumption, LoopPromises DEF StreamsInv
<1> QED
  BY <1>1, StreamsInvariant, PTL

\* pipe.c and kmp.c double their buffers in time: there is always room for the next
\* read and the final 0, whatever the size of a read, of the pipe and of the input.
THEOREM BuffersAlwaysFit == FairSpec => []BufferFits
<1>1. StreamsInv => BufferFits
  BY StreamsAssumption, KmpPromises DEF StreamsInv, StreamInv, BufferFits
<1> QED
  BY <1>1, StreamsInvariant, PTL

\* pipe.c: the child has a prefix of the message, nothing is lost between the
\* processes, and two that end well have passed the whole message.
THEOREM StreamAlwaysIntact == FairSpec => []StreamIntact
<1>1. StreamsInv => StreamIntact
  BY StreamsAssumption, StreamPromises DEF StreamsInv
<1> QED
  BY <1>1, StreamsInvariant, PTL

\* shell_pipe.c: when the shell is done the output of ls has been shown, its children
\* are reaped, its standard descriptors restored and the pipe is closed.
THEOREM PipelineAlwaysDone == FairSpec => []PipelineDone
<1>1. StreamsInv => PipelineDone
  BY StreamsAssumption, ShellPromises DEF StreamsInv
<1> QED
  BY <1>1, StreamsInvariant, PTL

\* The read loops store inside their buffers, but for read_fifo.c and a full buffer,
\* and pass on all they read, but for what does not fill a block of fwrite_copy.c and
\* what printf("%s") drops: a byte 0 and what follows it in the same block, or, in
\* fgetc_buffer.c, in the file.
THEOREM InputAlwaysPassedOn == FairSpec => []InputPassedOn
<1>1. StreamsInv => InputPassedOn
  BY StreamsAssumption, ReadPromises DEF StreamsInv
<1> QED
  BY <1>1, StreamsInvariant, PTL

\* kmp.c: for every text and pattern the prefix table holds the longest borders and
\* every occurrence has its line.  insertion_sort.c: for every array and range each
\* round leaves the part it has reached sorted and complete.
THEOREM AlgorithmsAlwaysExact == FairSpec => []AlgorithmsExact
<1>1. StreamsInv => AlgorithmsExact
  BY StreamsAssumption, KmpPromises DEF StreamsInv, InsertionInv, AlgorithmsExact
<1> QED
  BY <1>1, StreamsInvariant, PTL

=============================================================================
