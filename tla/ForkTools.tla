------------------------------ MODULE ForkTools ------------------------------
(* src/fork/pingpong.c and src/fork/xargs.c.                                 *)
EXTENDS Pipes

CONSTANTS Nargs,   \* NARGS
          Lines    \* bound: the lines on the standard input of xargs

VARIABLES
  batches,  \* the lines handed to each program that xargs ran
  found     \* the program that xargs is given exists
toolVars == <<batches, found>>

-----------------------------------------------------------------------------
(* pingpong: a number goes to the child on the first pipe and comes back on  *)
(* the second.  Descriptors "r" and "w" are fds2, "readfd" and "stdout" the  *)
(* ends of fds1.                                                             *)

PingStart == PipesInit("pipes", [msg |-> 0, lines |-> 0, args |-> <<>>])

TwoPipes ==
  [Closed EXCEPT !["readfd"] = [pipe |-> 1, end |-> "r"], !["stdout"] = [pipe |-> 1, end |-> "w"],
                 !["r"] = [pipe |-> 2, end |-> "r"], !["w"] = [pipe |-> 2, end |-> "w"]]

PingMain(p) ==
  /\ At(p, "pipes")
  /\ Fork(p, TwoPipes, "serve", "return", [var[p] EXCEPT !.msg = 1], var[p])
  /\ pipes' = 2 /\ UNCHANGED <<buf, toolVars>>

\* create_pipe() or fork_process() fails: _exit(EXIT_FAILURE).
PingFails(p) == At(p, "pipes") /\ Exit(p, 1) /\ UNCHANGED toolVars

\* Each side closes the ends it does not use.
Serve(p) ==
  /\ At(p, "serve")
  /\ Arrange(p, CloseFd(CloseFd(fds[p], "w"), "readfd"), "ping") /\ UNCHANGED toolVars

Return(p) ==
  /\ At(p, "return")
  /\ Arrange(p, CloseFd(CloseFd(fds[p], "stdout"), "r"), "get") /\ UNCHANGED toolVars

Ping(p) ==
  /\ At(p, "ping") /\ HasRoom(p, "stdout") /\ Put(p, "stdout", var[p].msg)
  /\ Goto(p, "back") /\ UNCHANGED <<fds, lifeVars, var, toolVars>>

Receive(p, f, here, there) ==
  /\ At(p, here) /\ HasItem(p, f) /\ Take(p, f)
  /\ var' = [var EXCEPT ![p].msg = Item(p, f)]
  /\ Goto(p, there) /\ UNCHANGED <<fds, lifeVars, toolVars>>

Get(p) == Receive(p, "readfd", "get", "pong")
Back(p) == Receive(p, "r", "back", "wait")

Pong(p) ==
  /\ At(p, "pong") /\ HasRoom(p, "w") /\ Put(p, "w", var[p].msg)
  /\ Goto(p, "wait") /\ UNCHANGED <<fds, lifeVars, var, toolVars>>

-----------------------------------------------------------------------------
(* xargs: a program for every Nargs lines, one after the other.  Its child   *)
(* goes on with the loop when execvp() fails, with a copy of the lines that  *)
(* the buffer of stdin held.                                                 *)

XargsStart(n) == PipesInit("getline", [msg |-> 0, lines |-> n, args |-> <<>>])

GetLine(p) ==
  /\ At(p, "getline") /\ var[p].lines > 0
  /\ LET args == Append(var[p].args, var[p].lines)
     IN  /\ var' = [var EXCEPT ![p].lines = @ - 1, ![p].args = args]
         /\ Goto(p, IF Len(args) = Nargs THEN "fork" ELSE "getline")
  /\ UNCHANGED <<fds, kernelVars, lifeVars, toolVars>>

NoLine(p) ==
  /\ At(p, "getline") /\ var[p].lines = 0
  /\ Goto(p, IF var[p].args # <<>> THEN "fork" ELSE "exit")
  /\ UNCHANGED <<fds, kernelVars, lifeVars, var, toolVars>>

ForkProgram(p) ==
  /\ At(p, "fork")
  /\ Fork(p, fds[p], "join", "execvp", var[p], var[p])
  /\ UNCHANGED <<kernelVars, toolVars>>

ExecProgram(p) ==
  /\ At(p, "execvp") /\ found
  /\ batches' = Append(batches, var[p].args)
  /\ Goto(p, "exit") /\ UNCHANGED <<fds, kernelVars, lifeVars, var, found>>

\* After the arguments of a program: the next line, or the end.
Onwards(p) ==
  /\ var' = [var EXCEPT ![p].args = <<>>]
  /\ Goto(p, IF Len(var[p].args) = Nargs THEN "getline" ELSE "exit")

\* fork() fails: the lines are freed all the same, and nobody gets them.
XargsFails(p) ==
  /\ At(p, "fork") /\ Onwards(p)
  /\ UNCHANGED <<fds, kernelVars, lifeVars, toolVars>>

ExecFails(p) ==
  /\ At(p, "execvp") /\ ~found /\ Onwards(p)
  /\ UNCHANGED <<fds, kernelVars, lifeVars, toolVars>>

\* Seeded fault: xargs does not wait for the program.
JoinNot(p) == At(p, "join") /\ Onwards(p) /\ UNCHANGED <<fds, kernelVars, lifeVars, toolVars>>

\* wait(NULL)
Join(p) ==
  /\ At(p, "join")
  /\ \E c \in Children(p) : st[c] = "zombie" /\ Reap(c)
  /\ Onwards(p)
  /\ UNCHANGED <<fds, kernelVars, toolVars>>

ToolWait(p) == At(p, "wait") /\ WaitStep(p, "exit") /\ UNCHANGED toolVars
ToolExit(p) == At(p, "exit") /\ Exit(p, 0) /\ UNCHANGED toolVars

PingStep(p) ==
  PingMain(p) \/ Serve(p) \/ Return(p) \/ Ping(p) \/ Get(p) \/ Pong(p) \/ Back(p) \/ ToolWait(p)
XargsStep(p) == GetLine(p) \/ NoLine(p) \/ ForkProgram(p) \/ ExecProgram(p) \/ ExecFails(p) \/ Join(p)
=============================================================================
