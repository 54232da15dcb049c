------------------------------- MODULE Pipes -------------------------------
(***************************************************************************)
(* Processes, file descriptors and pipes, as the programs of src/fork and  *)
(* src/shell use them: the calls of src/fork/util.c over fork(2), pipe(2), *)
(* read(2), write(2), close(2), wait(2) and exit(3).                       *)
(*                                                                         *)
(* A read returns one item and a write adds one.  What a program does when *)
(* its pipe() or fork() fails is an action of the module of that program.  *)
(***************************************************************************)
EXTENDS Naturals, Sequences, FiniteSets

CONSTANTS
  Proc, Pipe,     \* bounds: numbers of the processes and of the pipes ever made
  Cap,            \* what a pipe holds
  None            \* a descriptor that is not open; no process

ASSUME PipeAssumption ==
  /\ Proc = 0..(Cardinality(Proc) - 1) /\ 0 \in Proc
  /\ Pipe = 1..Cardinality(Pipe) /\ Cap \in Nat \ {0} /\ None \notin Proc \cup Pipe

Fd == {"stdin", "stdout", "r", "w", "readfd"}
Ends == {[pipe |-> p, end |-> x] : p \in Pipe, x \in {"r", "w"}}

Killed == 2

VARIABLES
  fds,     \* what each descriptor of each process is open to, None if nothing
  buf,     \* the items in each pipe
  pipes,   \* pipes made
  st,      \* "unborn", "running", "zombie" or "reaped"
  father,  \* who forked each process
  code,    \* exit status, Killed for a signal
  pc, var  \* where each process is, and its local variables

kernelVars == <<buf, pipes>>
lifeVars == <<st, father, code>>
vars == <<fds, buf, pipes, st, father, code, pc, var>>

Closed == [f \in Fd |-> None]

\* Process 0 runs alone, at place "first".
PipesInit(first, locals) ==
  /\ fds = [p \in Proc |-> Closed]
  /\ buf = [q \in Pipe |-> <<>>] /\ pipes = 0
  /\ st = [p \in Proc |-> IF p = 0 THEN "running" ELSE "unborn"]
  /\ father = [p \in Proc |-> None]
  /\ code = [p \in Proc |-> 0]
  /\ pc = [p \in Proc |-> IF p = 0 THEN first ELSE "unborn"]
  /\ var = [p \in Proc |-> IF p = 0 THEN locals ELSE <<>>]

-----------------------------------------------------------------------------
At(p, place) == st[p] = "running" /\ pc[p] = place
Goto(p, place) == pc' = [pc EXCEPT ![p] = place]

Holders(q, end) ==
  {p \in Proc : st[p] = "running" /\ \E f \in Fd : fds[p][f] = [pipe |-> q, end |-> end]}

\* close(), and dup2() of one descriptor onto another.
CloseFd(table, f) == [table EXCEPT ![f] = None]
Dup2(table, old, new) == [table EXCEPT ![new] = table[old]]

\* pipe(): descriptors r and w of the next pipe.
NewPipe(table) ==
  [table EXCEPT !["r"] = [pipe |-> pipes + 1, end |-> "r"],
                !["w"] = [pipe |-> pipes + 1, end |-> "w"]]

\* fork(): the child has the descriptors of its father.
NextProc == CHOOSE c \in Proc : st[c] = "unborn" /\ \A d \in Proc : st[d] = "unborn" => c <= d
CanFork == \E c \in Proc : st[c] = "unborn"

\* p forks; table and locals are those of both, and the places where each goes on.
Fork(p, table, here, there, mine, childs) ==
  /\ CanFork
  /\ fds' = [fds EXCEPT ![p] = table, ![NextProc] = table]
  /\ st' = [st EXCEPT ![NextProc] = "running"]
  /\ father' = [father EXCEPT ![NextProc] = p]
  /\ pc' = [pc EXCEPT ![p] = here, ![NextProc] = there]
  /\ var' = [var EXCEPT ![p] = mine, ![NextProc] = childs]
  /\ UNCHANGED code

\* exit(): every descriptor is closed.
Exit(p, status) ==
  /\ st' = [st EXCEPT ![p] = "zombie"]
  /\ code' = [code EXCEPT ![p] = status]
  /\ fds' = [fds EXCEPT ![p] = Closed]
  /\ Goto(p, "done")
  /\ var' = [var EXCEPT ![p] = <<>>]
  /\ UNCHANGED <<kernelVars, father>>

\* A step that only closes or moves descriptors.
Arrange(p, table, place) ==
  /\ fds' = [fds EXCEPT ![p] = table]
  /\ Goto(p, place)
  /\ UNCHANGED <<kernelVars, lifeVars, var>>

\* read(): an item, or the end of the file when nobody can write any more.
HasItem(p, f) == buf[fds[p][f].pipe] # <<>>
AtEof(p, f) == ~HasItem(p, f) /\ Holders(fds[p][f].pipe, "w") = {}
Item(p, f) == Head(buf[fds[p][f].pipe])
Take(p, f) == buf' = [buf EXCEPT ![fds[p][f].pipe] = Tail(@)] /\ UNCHANGED pipes

\* write(), which kills the writer when nobody can read.
HasRoom(p, f) == Holders(fds[p][f].pipe, "r") # {} /\ Len(buf[fds[p][f].pipe]) < Cap
Broken(p, f) == Holders(fds[p][f].pipe, "r") = {}
Put(p, f, item) == buf' = [buf EXCEPT ![fds[p][f].pipe] = Append(@, item)] /\ UNCHANGED pipes

\* wait() and waitpid(): the children of p that have not been waited for.
Children(p) == {c \in Proc : father[c] = p /\ st[c] \in {"running", "zombie"}}
Reap(c) == st' = [st EXCEPT ![c] = "reaped"] /\ UNCHANGED <<father, code>>

\* wait(NULL), then exit(EXIT_SUCCESS).
WaitStep(p, place) ==
  \/ /\ Children(p) = {} /\ Goto(p, place)
     /\ UNCHANGED <<fds, kernelVars, lifeVars, var>>
  \/ \E c \in Children(p) :
       /\ st[c] = "zombie" /\ Reap(c) /\ Goto(p, place)
       /\ UNCHANGED <<fds, kernelVars, var>>
=============================================================================
