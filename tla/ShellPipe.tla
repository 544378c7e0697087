----------------------------- MODULE ShellPipe -----------------------------
(***************************************************************************)
(* 04-process-management/shell_pipe.c: "ls -la | cat" made by hand.  The       *)
(* shell points its own standard output at the pipe, forks ls, WAITS for it,  *)
(* puts its standard output back and closes the write end; then the same with *)
(* its standard input, cat and the read end.                                  *)
(*                                                                            *)
(* A descriptor is the file it refers to; a child gets a copy of the shell's  *)
(* whole table, and the pipe ends when no process has its write end.          *)
(***************************************************************************)
EXTENDS Integers

CONSTANTS
  PipeCap,     \* bytes the kernel keeps for the pipe
  MaxOutput    \* bound: bytes ls may have to write

\* What the model assumes of its constants.
ShellPipeAssumption == PipeCap \in Nat \ {0} /\ MaxOutput \in Nat

VARIABLES
  sh,         \* where the shell is, <<command, step>>
  fd,         \* the shell's descriptor table
  ls, cat,    \* unborn, running, zombie or reaped
  lsfd, catfd,\* what each child has open
  todo,       \* bytes ls has not written yet
  output,     \* bytes ls writes in all
  pipe,       \* bytes in the pipe
  shown,      \* bytes cat has printed
  noexec      \* commands execvp did not find

vars == <<sh, fd, ls, cat, lsfd, catfd, todo, output, pipe, shown, noexec>>
children == <<ls, cat, lsfd, catfd, todo, output, pipe, shown, noexec>>

Commands == {"ls", "cat"}
Slots == {"in", "out", "in_d", "out_d", "pd0", "pd1"}
Files == {"tty_in", "tty_out", "read_end", "write_end", "closed"}

\* des.pd, des.sd and des.bd of each command
Pd(c) == IF c = "ls" THEN "pd1" ELSE "pd0"
Sd(c) == IF c = "ls" THEN "out" ELSE "in"
Bd(c) == IF c = "ls" THEN "out_d" ELSE "in_d"

\* dup(0), dup(1) and pipe have succeeded.
Init ==
  /\ sh = <<"ls", "redirect">>
  /\ fd = [s \in Slots |-> CASE s \in {"in", "in_d"} -> "tty_in"
                             [] s \in {"out", "out_d"} -> "tty_out"
                             [] s = "pd0" -> "read_end"
                             [] s = "pd1" -> "write_end"]
  /\ ls = "unborn" /\ cat = "unborn"
  /\ lsfd = fd /\ catfd = fd
  /\ output \in 0..MaxOutput /\ todo = output
  /\ pipe = 0 /\ shown = 0 /\ noexec = {}

\* dup2_try(des.pd, des.sd)
Redirect(c) ==
  /\ sh = <<c, "redirect">>
  /\ fd' = [fd EXCEPT ![Sd(c)] = fd[Pd(c)]]
  /\ sh' = <<c, "fork">>
  /\ UNCHANGED children

\* fork_exec: the child runs with a copy of the table, or exits at once
\* because execvp fails
ForkExec(c) ==
  /\ sh = <<c, "fork">>
  /\ \E child \in {"running", "zombie"} :
       /\ noexec' = IF child = "zombie" THEN noexec \union {c} ELSE noexec
       /\ IF c = "ls" THEN ls' = child /\ lsfd' = fd /\ UNCHANGED <<cat, catfd>>
                      ELSE cat' = child /\ catfd' = fd /\ UNCHANGED <<ls, lsfd>>
  /\ sh' = <<c, "wait">>
  /\ UNCHANGED <<fd, todo, output, pipe, shown>>

\* wait_try
Wait(c) ==
  /\ sh = <<c, "wait">>
  /\ IF c = "ls" THEN ls = "zombie" /\ ls' = "reaped" /\ UNCHANGED cat
                 ELSE cat = "zombie" /\ cat' = "reaped" /\ UNCHANGED ls
  /\ sh' = <<c, "restore">>
  /\ UNCHANGED <<fd, lsfd, catfd, todo, output, pipe, shown, noexec>>

\* Variant: the pipe's descriptor is not closed.
RestoreOnly(c) ==
  /\ sh = <<c, "restore">>
  /\ fd' = [fd EXCEPT ![Sd(c)] = fd[Bd(c)]]
  /\ sh' = IF c = "ls" THEN <<"cat", "redirect">> ELSE <<"cat", "done">>
  /\ UNCHANGED children

\* dup2_try(des.bd, des.sd) and close(des.pd)
Restore(c) ==
  /\ sh = <<c, "restore">>
  /\ fd' = [fd EXCEPT ![Sd(c)] = fd[Bd(c)], ![Pd(c)] = "closed"]
  /\ sh' = IF c = "ls" THEN <<"cat", "redirect">> ELSE <<"cat", "done">>
  /\ UNCHANGED children

\* Who has the write end, and who the read end.
Has(file) ==
  {p \in {"sh", "ls", "cat"} :
     \/ p = "sh" /\ \E s \in Slots : fd[s] = file
     \/ p = "ls" /\ ls = "running" /\ \E s \in Slots : lsfd[s] = file
     \/ p = "cat" /\ cat = "running" /\ \E s \in Slots : catfd[s] = file}

\* ls writes a byte to its standard output, or has written all and exits.
Ls ==
  /\ ls = "running"
  /\ \/ todo > 0 /\ pipe < PipeCap /\ todo' = todo - 1 /\ pipe' = pipe + 1 /\ UNCHANGED ls
     \/ todo = 0 /\ ls' = "zombie" /\ UNCHANGED <<todo, pipe>>
  /\ UNCHANGED <<sh, fd, cat, lsfd, catfd, output, shown, noexec>>

\* cat copies a byte, or sees the end of its standard input and exits.
Cat ==
  /\ cat = "running" /\ catfd["in"] = "read_end"
  /\ \/ pipe > 0 /\ pipe' = pipe - 1 /\ shown' = shown + 1 /\ UNCHANGED cat
     \/ pipe = 0 /\ Has("write_end") = {} /\ cat' = "zombie" /\ UNCHANGED <<pipe, shown>>
  /\ UNCHANGED <<sh, fd, ls, lsfd, catfd, todo, output, noexec>>

\* One of the calls of the shell fails: exit(1).
ShellFails ==
  /\ sh[2] \in {"redirect", "fork", "restore"}
  /\ sh' = <<sh[1], "failed">>
  /\ fd' = [s \in Slots |-> "closed"]
  /\ UNCHANGED children

\* The shell has returned or failed, or waits for an ls that waits for room.
Stopped ==
  /\ sh[2] \in {"done", "failed"} \/ (ls = "running" /\ todo > 0 /\ pipe = PipeCap)
  /\ UNCHANGED vars

Shell == \E c \in Commands : Redirect(c) \/ ForkExec(c) \/ Wait(c) \/ Restore(c)

Next == Shell \/ Ls \/ Cat \/ ShellFails \/ Stopped

Spec == Init /\ [][Next]_vars

\* The three processes run.
Fairness == WF_vars(Shell) /\ WF_vars(Ls) /\ WF_vars(Cat)

-----------------------------------------------------------------------------
(* Properties *)

\* Each variable has its type.
TypeOK ==
  /\ sh \in Commands \X {"redirect", "fork", "wait", "restore", "done", "failed"}
  /\ fd \in [Slots -> Files] /\ lsfd \in [Slots -> Files] /\ catfd \in [Slots -> Files]
  /\ {ls, cat} \subseteq {"unborn", "running", "zombie", "reaped"}
  /\ output \in 0..MaxOutput /\ todo \in 0..MaxOutput
  /\ pipe \in 0..PipeCap /\ shown \in 0..MaxOutput /\ noexec \subseteq Commands

\* When the shell is done, cat has shown all that ls has to write (if both
\* could be executed), both children are reaped, the standard descriptors are
\* the terminal's again and neither end of the pipe is left open.
PipelineDone ==
  sh[2] = "done" =>
    /\ noexec = {} => shown = output
    /\ ls = "reaped" /\ cat = "reaped"
    /\ fd["in"] = "tty_in" /\ fd["out"] = "tty_out"
    /\ Has("read_end") = {} /\ Has("write_end") = {}

\* The pipeline ends if what ls writes fits into the pipe.  (If it does not,
\* ls waits for room, the shell for ls, and cat is never started.)
EndsIfItFits == output <= PipeCap ~> sh[2] \in {"done", "failed"}

=============================================================================
