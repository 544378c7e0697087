----------------------------- MODULE PipeStream -----------------------------
(***************************************************************************)
(* 04-process-management/pipe.c: the parent writes a message into a pipe and  *)
(* the forked child reads it to the end into a buffer it doubles when it may  *)
(* not hold another BUFSIZE bytes.  The child sees the end of the stream only *)
(* when nobody, itself included, has the write end open.                      *)
(***************************************************************************)
EXTENDS Integers, Sequences

CONSTANTS
  BUFSIZE,     \* 2 in the code
  Length,      \* bytes of the message (54 in the code)
  PipeCap      \* bytes the kernel keeps for the pipe

\* What the model assumes of its constants.
PipeAssumption ==
  BUFSIZE \in Nat \ {0} /\ Length \in Nat /\ PipeCap \in Nat \ {0}

VARIABLES
  parent,      \* fork, write, exited or failed
  child,       \* unborn, close, read, exited or failed
  written,     \* n of the parent
  pipe,        \* bytes in the pipe; byte k of the message is k
  writers,     \* processes that have the write end open
  readers,     \* processes that have the read end open
  got,         \* the child's buf[0..n-1]
  cap          \* the child's cap; buf has cap + 1 bytes

ends == <<writers, readers>>
vars == <<parent, child, written, pipe, writers, readers, got, cap>>

Init ==
  /\ parent = "fork" /\ child = "unborn"
  /\ written = 0 /\ pipe = <<>>
  /\ writers = {"parent"} /\ readers = {"parent"}
  /\ got = <<>> /\ cap = BUFSIZE

\* A process that ends closes what it has open.
Leaves(p) == writers' = writers \ {p} /\ readers' = readers \ {p}

-----------------------------------------------------------------------------
(* The parent *)

Fork ==
  /\ parent = "fork"
  /\ \/ /\ parent' = "write" /\ child' = "close"
        /\ writers' = writers \union {"child"} /\ readers' = readers \union {"child"}
     \/ parent' = "failed" /\ Leaves("parent") /\ UNCHANGED child
  /\ UNCHANGED <<written, pipe, got, cap>>

\* Variant: every call starts at the beginning of the message.
WriteFromStart ==
  /\ parent = "write" /\ written < Length
  /\ \E m \in 1..Length - written :
       /\ Len(pipe) + m <= PipeCap
       /\ pipe' = pipe \o [k \in 1..m |-> k]
       /\ written' = written + m
  /\ UNCHANGED <<parent, child, ends, got, cap>>

\* write takes as much as it likes of what fits and waits while nothing does.
\* EINTR is retried; SIGPIPE cannot come, the parent has the read end open.
Write ==
  /\ parent = "write" /\ written < Length
  /\ \E m \in 1..Length - written :
       /\ Len(pipe) + m <= PipeCap
       /\ pipe' = pipe \o [k \in 1..m |-> written + k]
       /\ written' = written + m
  /\ UNCHANGED <<parent, child, ends, got, cap>>

\* write or, at the end, close fails: return 1.
ParentFails ==
  /\ parent = "write"
  /\ parent' = "failed"
  /\ Leaves("parent")
  /\ UNCHANGED <<child, written, pipe, got, cap>>

\* close(pd[0]), close(pd[1]) and the end of main, which does not wait.
ParentCloses ==
  /\ parent = "write" /\ written = Length
  /\ parent' = "exited"
  /\ Leaves("parent")
  /\ UNCHANGED <<child, written, pipe, got, cap>>

-----------------------------------------------------------------------------
(* The child *)

\* Variant: the child keeps its copy of the write end.
ChildKeepsWriteEnd ==
  /\ child = "close"
  /\ child' = "read"
  /\ UNCHANGED <<parent, written, pipe, ends, got, cap>>

\* close(pd[1])
ChildCloses ==
  /\ child = "close"
  /\ child' = "read"
  /\ writers' = writers \ {"child"}
  /\ UNCHANGED <<parent, written, pipe, readers, got, cap>>

\* Variant: the buffer is doubled when it is full.
GrownWhenFull(n) == IF n = cap THEN 2 * cap ELSE cap

\* if(n > cap - BUFSIZE) cap *= 2
Grown(n) == IF n > cap - BUFSIZE THEN 2 * cap ELSE cap

\* read(pd[0], buf + n, BUFSIZE) returns m > 0 bytes
Read ==
  /\ child = "read"
  /\ \E m \in 1..BUFSIZE :
       /\ m <= Len(pipe)
       /\ got' = got \o SubSeq(pipe, 1, m)
       /\ pipe' = SubSeq(pipe, m + 1, Len(pipe))
       /\ cap' = Grown(Len(got'))
  /\ UNCHANGED <<parent, child, written, ends>>

\* close or read fails: return 1.  EINTR counts as a failure here.
ChildFails ==
  /\ child \in {"close", "read"}
  /\ child' = "failed"
  /\ Leaves("child")
  /\ UNCHANGED <<parent, written, pipe, got, cap>>

\* read returns 0: nothing in the pipe and no writer; terminate and print
ReadEnd ==
  /\ child = "read" /\ pipe = <<>> /\ writers = {}
  /\ child' = "exited"
  /\ Leaves("child")
  /\ UNCHANGED <<parent, written, pipe, got, cap>>

-----------------------------------------------------------------------------
Parent == Fork \/ Write \/ ParentCloses
Child == ChildCloses \/ Read \/ ReadEnd

Next == Parent \/ Child \/ ParentFails \/ ChildFails

Spec == Init /\ [][Next]_vars

\* Both processes run.
Fairness == WF_vars(Parent) /\ WF_vars(Child)

-----------------------------------------------------------------------------
(* Properties *)

\* Each variable has its type; the pipe holds what it can.
TypeOK ==
  /\ parent \in {"fork", "write", "exited", "failed"}
  /\ child \in {"unborn", "close", "read", "exited", "failed"}
  /\ written \in 0..Length
  /\ pipe \in Seq(1..Length) /\ Len(pipe) <= PipeCap
  /\ writers \subseteq {"parent", "child"} /\ readers \subseteq {"parent", "child"}
  /\ got \in Seq(1..Length) /\ cap \in Nat

\* Whenever the child is about to read BUFSIZE bytes, or to write the final 0,
\* its buffer has room: the test before the doubling is made one read ahead.
BufferFits == Len(got) + BUFSIZE <= cap

\* What the child has is a prefix of the message and, with what is in the
\* pipe, all that was written; a child that ends well after a parent that
\* ended well has the message.
StreamIntact ==
  /\ child # "failed" => got \o pipe = [k \in 1..written |-> k]
  /\ parent = "exited" /\ child = "exited" => Len(got) = Length

\* The child ends, however the parent does.  (A parent whose child failed may
\* wait for room in the pipe for ever: it is itself a reader.)
ChildEnds == child = "close" ~> child \in {"exited", "failed"}

=============================================================================
