------------------------------- MODULE Primes -------------------------------
(* src/fork/primes.c: a chain of processes, each dropping the multiples of   *)
(* the first number that reaches it.  printf() writes to the terminal at    *)
(* once; to anything else it only fills the buffer of the process, which    *)
(* fork() copies, exit() writes out and _exit() drops.  The lines of a run  *)
(* are taken to fit in that buffer.                                         *)
EXTENDS Pipes

CONSTANTS MaxN   \* the argument of the program

VARIABLES
  printed,   \* the primes that came out
  tty        \* stdout is a terminal

\* held: what the buffer of stdout holds.
PrimesStart == PipesInit("main", [n |-> MaxN, item |-> 2, held |-> <<>>])

\* create_pipe(fds), fork_process(), and the first close of either side.
PrimesMain(p) ==
  /\ At(p, "main")
  /\ Fork(p, NewPipe(fds[p]), "close0", "loop", var[p], var[p])
  /\ pipes' = pipes + 1 /\ UNCHANGED <<buf, printed>>

CloseRead(p) ==
  /\ At(p, "close0") /\ Arrange(p, CloseFd(fds[p], "r"), "feed") /\ UNCHANGED printed

Feed(p) ==
  /\ At(p, "feed") /\ var[p].item <= var[p].n /\ HasRoom(p, "w")
  /\ Put(p, "w", var[p].item)
  /\ var' = [var EXCEPT ![p].item = @ + 1]
  /\ UNCHANGED <<fds, lifeVars, pc, printed>>

FeedEnds(p) ==
  /\ At(p, "feed") /\ var[p].item > var[p].n
  /\ Arrange(p, CloseFd(fds[p], "w"), "wait") /\ UNCHANGED printed

\* Seeded fault: the filter does not close the end it could write to.
FilterLoopOpen(p) ==
  /\ At(p, "loop")
  /\ Arrange(p, CloseFd(Dup2(fds[p], "r", "readfd"), "r"), "first")
  /\ UNCHANGED printed

\* readfd = fds[0]; close(fds[1])
FilterLoop(p) ==
  /\ At(p, "loop")
  /\ Arrange(p, CloseFd(CloseFd(Dup2(fds[p], "r", "readfd"), "r"), "w"), "first")
  /\ UNCHANGED printed

\* The first number that reaches a filter, which prints it.
First(p) ==
  /\ At(p, "first") /\ HasItem(p, "readfd")
  /\ Take(p, "readfd")
  /\ LET n == Item(p, "readfd")
     IN  /\ printed' = IF tty THEN Append(printed, n) ELSE printed
         /\ var' = [var EXCEPT ![p].n = n, ![p].item = 0,
                               ![p].held = IF tty THEN @ ELSE Append(@, n)]
  /\ Goto(p, "next")
  /\ UNCHANGED <<fds, lifeVars>>

NoFirst(p) ==
  /\ At(p, "first") /\ AtEof(p, "readfd")
  /\ Arrange(p, CloseFd(fds[p], "readfd"), "wait") /\ UNCHANGED printed

\* create_pipe() or fork_process() fails: _exit(EXIT_FAILURE).
PrimesFails(p) == (At(p, "main") \/ At(p, "next")) /\ Exit(p, 1) /\ UNCHANGED printed

\* The next filter, which closes what this one reads from.
NextFilter(p) ==
  /\ At(p, "next")
  /\ Fork(p, NewPipe(fds[p]), "close1", "drop", var[p], var[p])
  /\ pipes' = pipes + 1 /\ UNCHANGED <<buf, printed>>

Drop(p) ==
  /\ At(p, "drop") /\ Arrange(p, CloseFd(fds[p], "readfd"), "loop") /\ UNCHANGED printed

CloseNew(p) ==
  /\ At(p, "close1") /\ Arrange(p, CloseFd(fds[p], "r"), "pump") /\ UNCHANGED printed

\* Seeded fault: the filter drops the even numbers, whatever its first one is.
PassesOdd(n, k) == k % 2 # 0

Passes(n, k) == k % n # 0

Pump(p) ==
  /\ At(p, "pump") /\ HasItem(p, "readfd")
  /\ Take(p, "readfd")
  /\ var' = [var EXCEPT ![p].item = Item(p, "readfd")]
  /\ Goto(p, IF Passes(var[p].n, Item(p, "readfd")) THEN "push" ELSE "pump")
  /\ UNCHANGED <<fds, lifeVars, printed>>

Push(p) ==
  /\ At(p, "push") /\ HasRoom(p, "w")
  /\ Put(p, "w", var[p].item) /\ Goto(p, "pump")
  /\ UNCHANGED <<fds, lifeVars, var, printed>>

\* SIGPIPE: the next filter could not go on, and has ended.
NoReader(p) ==
  /\ At(p, "push") \/ (At(p, "feed") /\ var[p].item <= var[p].n)
  /\ Broken(p, "w") /\ Exit(p, Killed) /\ UNCHANGED printed

PumpEnds(p) ==
  /\ At(p, "pump") /\ AtEof(p, "readfd")
  /\ Arrange(p, CloseFd(CloseFd(fds[p], "w"), "readfd"), "wait") /\ UNCHANGED printed

PrimesWait(p) == At(p, "wait") /\ WaitStep(p, "exit") /\ UNCHANGED printed

\* exit() writes out the buffer.
PrimesExit(p) ==
  At(p, "exit") /\ Exit(p, 0) /\ printed' = printed \o var[p].held

PrimesStep(p) ==
  \/ PrimesMain(p) \/ CloseRead(p) \/ Feed(p) \/ FeedEnds(p)
  \/ FilterLoop(p) \/ First(p) \/ NoFirst(p) \/ NextFilter(p) \/ Drop(p) \/ CloseNew(p)
  \/ Pump(p) \/ Push(p) \/ NoReader(p) \/ PumpEnds(p) \/ PrimesWait(p) \/ PrimesExit(p)
=============================================================================
