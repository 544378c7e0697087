----------------------------- MODULE SpawnWait -----------------------------
(***************************************************************************)
(* The programs that fork one child and wait for it:                          *)
(*   system      04-process-management/system.c, my_system                     *)
(*   command     04-process-management/command.c                               *)
(*   fork_exec   04-process-management/fork_exec.c                             *)
(*   wait        04-process-management/wait.c, whose child just returns        *)
(*   spawn       misc/forkexec.c                                               *)
(* What the program executed does is up to it: exit with some code, die of a   *)
(* signal, be stopped and continued.                                           *)
(***************************************************************************)
EXTENDS Integers

CONSTANT Codes     \* exit codes of the program executed, in 0..255

\* What the model assumes of its constants.
SpawnAssumption == Codes \subseteq 0..255

Forkers == {"system", "command", "fork_exec", "wait", "spawn"}

\* What there is to report, besides exit codes
Error == -1
Signal == -2
Stopped == -3
Garbage == -4      \* the local status nobody has stored to

VARIABLES
  forker,
  parent,     \* "fork", "wait" or "ended"
  child,      \* "none", "exec", "running", "stopped", "zombie" or "reaped"
  how,        \* how the child ended: a code or Signal
  execed,     \* the program was executed
  report      \* what the parent returns or prints of the child

vars == <<forker, parent, child, how, execed, report>>

Init ==
  /\ forker \in Forkers
  /\ parent = "fork" /\ child = "none" /\ how = 0 /\ execed = FALSE /\ report = Error

Fork ==
  /\ parent = "fork"
  /\ parent' = "wait" /\ child' = "exec"
  /\ UNCHANGED <<forker, how, execed, report>>

\* fork_exec.c and wait.c do not return when fork fails: they wait without a
\* child, which is an error too; wait.c then looks at a status never set.
ForkFails ==
  /\ parent = "fork"
  /\ parent' = "ended"
  /\ report' = IF forker = "wait" THEN Garbage ELSE Error
  /\ UNCHANGED <<forker, child, how, execed>>

-----------------------------------------------------------------------------
(* The child *)

Exec ==
  /\ child = "exec" /\ forker # "wait"
  /\ child' = "running" /\ execed' = TRUE
  /\ UNCHANGED <<forker, parent, how, report>>

\* exec fails: exit(-1), return 1, exit(1), abort(); the child of wait.c
\* returns 0 in any case.
NoExec ==
  /\ child = "exec"
  /\ child' = "zombie"
  /\ how' = CASE forker = "system" -> (-1) % 256
              [] forker \in {"command", "fork_exec"} -> 1
              [] forker = "wait" -> 0
              [] forker = "spawn" -> Signal
  /\ UNCHANGED <<forker, parent, execed, report>>

ChildEnds ==
  /\ child = "running"
  /\ child' = "zombie" /\ how' \in Codes \union {Signal}
  /\ UNCHANGED <<forker, parent, execed, report>>

\* SIGSTOP and SIGCONT
ChildStops ==
  /\ child \in {"running", "stopped"}
  /\ child' = IF child = "running" THEN "stopped" ELSE "running"
  /\ UNCHANGED <<forker, parent, how, execed, report>>

-----------------------------------------------------------------------------
(* The parent *)

\* wait or waitpid returns the child that has ended; my_system returns -1 for
\* one a signal has killed.
Wait ==
  /\ parent = "wait" /\ child = "zombie"
  /\ parent' = "ended" /\ child' = "reaped"
  /\ report' = IF forker = "system" /\ how = Signal THEN Error ELSE how
  /\ UNCHANGED <<forker, how, execed>>

\* Only command.c waits with WUNTRACED and returns when the child is stopped.
WaitStopped ==
  /\ parent = "wait" /\ forker = "command" /\ child = "stopped"
  /\ parent' = "ended" /\ report' = Stopped
  /\ UNCHANGED <<forker, child, how, execed>>

Ended == parent = "ended" /\ child \in {"none", "reaped", "zombie"} /\ UNCHANGED vars

Next ==
  \/ Fork \/ ForkFails \/ Exec \/ NoExec \/ ChildEnds \/ ChildStops
  \/ Wait \/ WaitStopped \/ Ended

Spec == Init /\ [][Next]_vars

\* The parent runs, and the child up to the program it executes.
Fairness == WF_vars(Fork \/ Wait \/ WaitStopped) /\ WF_vars(Exec \/ NoExec)

-----------------------------------------------------------------------------
(* Properties *)

\* Each variable has its type.
TypeOK ==
  /\ forker \in Forkers /\ parent \in {"fork", "wait", "ended"}
  /\ child \in {"none", "exec", "running", "stopped", "zombie", "reaped"}
  /\ how \in 0..255 \union {Signal} /\ execed \in BOOLEAN
  /\ report \in 0..255 \union {Error, Signal, Stopped, Garbage}

\* The parent ends after its child, unless command.c has seen it stopped.
OutlivesChild ==
  parent = "ended" => child \in {"none", "reaped"} \/ report = Stopped

\* The end of a program that was executed is what is reported of it: its code,
\* its signal (my_system returns -1 for that one), or, by command.c alone, that
\* it has stopped.  Without one, an error or a status never set is reported
\* exactly when there was no child; a child that could not execute its program
\* is reported by the code it exits with (see ErrorsReported).
ReportsEnd ==
  parent = "ended" =>
    IF execed
    THEN \/ report = how
         \/ report = Error /\ forker = "system" /\ how = Signal
         \/ report = Stopped /\ forker = "command"
    ELSE report \in {Error, Garbage} <=> child = "none"

\* "returns -1 for any error, otherwise the exit code of the command"
\* (system.c:8): what my_system returns without having run the command is -1.
ErrorsReported ==
  forker = "system" /\ parent = "ended" /\ ~execed => report = Error

\* Once the child has ended the parent does.
ParentEnds == child = "zombie" ~> parent = "ended"

=============================================================================
