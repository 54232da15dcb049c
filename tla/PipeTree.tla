------------------------------ MODULE PipeTree ------------------------------
(* A pipeline of src/shell: exec_cmd() of a PIPE, whose right side is the    *)
(* rest of the line (parse_line() nests to the right), down to commands.    *)
EXTENDS Pipes

VARIABLES cmds   \* the commands of the line; which programs they name is external

Stage(i) == [at |-> i, l |-> None, r |-> None, ls |-> 0, rs |-> 0, hold |-> FALSE]
TreeStart == PipesInit("exec", Stage(1))

Piped(p) == var[p].at < Len(cmds)

\* pipe(), and the fork of the left side.
ForkLeft(p) ==
  /\ At(p, "exec") /\ Piped(p)
  /\ Fork(p, NewPipe(fds[p]), "right?", "left", [var[p] EXCEPT !.l = NextProc], var[p])
  /\ pipes' = pipes + 1 /\ UNCHANGED <<buf, cmds>>

\* pipe() fails: exec_cmd() comes back to a process that calls _exit(EXIT_FAILURE).
NoPipe(p) == At(p, "exec") /\ Piped(p) /\ Exit(p, 1) /\ UNCHANGED cmds

\* A fork() that fails is reported and the pipe goes on.  Its status, which nobody
\* then sets, is whatever the stack holds.
NoLeft(p) ==
  /\ At(p, "exec") /\ Piped(p)
  /\ fds' = [fds EXCEPT ![p] = NewPipe(@)] /\ pipes' = pipes + 1
  /\ \E s \in {0, 1} : var' = [var EXCEPT ![p].ls = s]
  /\ Goto(p, "right?") /\ UNCHANGED <<buf, lifeVars, cmds>>

\* The left side: close(read_pipe), dup2(write_pipe, STDOUT_FILENO), close(write_pipe).
LeftSide(p) ==
  /\ At(p, "left")
  /\ Arrange(p, CloseFd(Dup2(CloseFd(fds[p], "r"), "w", "stdout"), "w"), "command")
  /\ UNCHANGED cmds

ForkRight(p) ==
  /\ At(p, "right?")
  /\ Fork(p, fds[p], "close", "right", [var[p] EXCEPT !.r = NextProc],
          Stage(var[p].at + 1))
  /\ UNCHANGED <<kernelVars, cmds>>

NoRight(p) ==
  /\ At(p, "right?")
  /\ \E s \in {0, 1} : var' = [var EXCEPT ![p].rs = s]
  /\ Goto(p, "close") /\ UNCHANGED <<fds, kernelVars, lifeVars, cmds>>

\* Seeded fault: the right side keeps the end it could write to.
RightSideOpen(p) ==
  /\ At(p, "right")
  /\ Arrange(p, CloseFd(Dup2(fds[p], "r", "stdin"), "r"), "exec")
  /\ UNCHANGED cmds

\* The right side: close(write_pipe), dup2(read_pipe, STDIN_FILENO), close(read_pipe).
RightSide(p) ==
  /\ At(p, "right")
  /\ Arrange(p, CloseFd(Dup2(CloseFd(fds[p], "w"), "r", "stdin"), "r"), "exec")
  /\ UNCHANGED cmds

CloseBoth(p) ==
  /\ At(p, "close")
  /\ Arrange(p, CloseFd(CloseFd(fds[p], "r"), "w"), "waitl") /\ UNCHANGED cmds

\* waitpid(), for the sides there are.
WaitLeft(p) ==
  /\ At(p, "waitl") /\ var[p].l # None /\ st[var[p].l] = "zombie"
  /\ Reap(var[p].l) /\ Goto(p, "waitr")
  /\ var' = [var EXCEPT ![p].ls = code[var[p].l]]
  /\ UNCHANGED <<fds, kernelVars, cmds>>

WaitRight(p) ==
  /\ At(p, "waitr") /\ var[p].r # None /\ st[var[p].r] = "zombie"
  /\ Reap(var[p].r) /\ Goto(p, "status")
  /\ var' = [var EXCEPT ![p].rs = code[var[p].r]]
  /\ UNCHANGED <<fds, kernelVars, cmds>>

WaitNobody(p) ==
  /\ \/ At(p, "waitl") /\ var[p].l = None /\ Goto(p, "waitr")
     \/ At(p, "waitr") /\ var[p].r = None /\ Goto(p, "status")
  /\ UNCHANGED <<fds, kernelVars, lifeVars, var, cmds>>

\* Seeded fault: the status of the pipe is that of its right side.
PipeStatusRight(ls, rs) == IF rs # 0 THEN 1 ELSE 0

PipeStatus(ls, rs) == IF ls # 0 \/ rs # 0 THEN 1 ELSE 0

ExitPipe(p) ==
  /\ At(p, "status") /\ Exit(p, PipeStatus(var[p].ls, var[p].rs)) /\ UNCHANGED cmds

-----------------------------------------------------------------------------
(* The programs.  "yes" writes for ever, "echo" writes one item, "cat"       *)
(* copies, "head" copies one item, "none" cannot be executed.                *)

Runs(p, kind) ==
  (At(p, "command") \/ (At(p, "exec") /\ ~Piped(p))) /\ cmds[var[p].at] = kind

\* execvp() comes back: _exit(EXIT_FAILURE).
NoProgram(p) == Runs(p, "none") /\ Exit(p, 1) /\ UNCHANGED cmds

Copies(p) == Runs(p, "cat") \/ Runs(p, "head")

ReadItem(p) ==
  /\ Copies(p) /\ ~var[p].hold /\ HasItem(p, "stdin")
  /\ Take(p, "stdin")
  /\ var' = [var EXCEPT ![p].hold = TRUE]
  /\ UNCHANGED <<fds, lifeVars, pc, cmds>>

ReadEof(p) ==
  /\ Copies(p) /\ ~var[p].hold /\ AtEof(p, "stdin")
  /\ Exit(p, 0) /\ UNCHANGED cmds

Wants(p) == Runs(p, "yes") \/ Runs(p, "echo") \/ (Copies(p) /\ var[p].hold)

\* The terminal takes everything.
WriteItem(p) ==
  /\ Wants(p)
  /\ IF fds[p]["stdout"] = None THEN UNCHANGED kernelVars
     ELSE HasRoom(p, "stdout") /\ Put(p, "stdout", 0)
  /\ var' = [var EXCEPT ![p].hold = FALSE]
  /\ IF Runs(p, "echo") \/ Runs(p, "head") THEN Goto(p, "over") ELSE UNCHANGED pc
  /\ UNCHANGED <<fds, lifeVars, cmds>>

Over(p) == At(p, "over") /\ Exit(p, 0) /\ UNCHANGED cmds

SigPipe(p) ==
  /\ Wants(p) /\ fds[p]["stdout"] # None /\ Broken(p, "stdout")
  /\ Exit(p, Killed) /\ UNCHANGED cmds

TreeStep(p) ==
  \/ ForkLeft(p) \/ LeftSide(p) \/ ForkRight(p) \/ RightSide(p) \/ CloseBoth(p)
  \/ WaitLeft(p) \/ WaitRight(p) \/ WaitNobody(p) \/ ExitPipe(p)
  \/ NoProgram(p) \/ ReadItem(p) \/ ReadEof(p) \/ WriteItem(p) \/ Over(p) \/ SigPipe(p)
TreeFails(p) == NoPipe(p) \/ NoLeft(p) \/ NoRight(p)
=============================================================================
