----------------------------- MODULE Pipelines -----------------------------
(***************************************************************************)
(* The programs of the repository that are made of processes and pipes,    *)
(* one of them at a time: src/fork/primes.c, src/fork/pingpong.c,          *)
(* src/fork/xargs.c, src/fork/find.c and the pipelines of                  *)
(* src/shell/exec.c.                                                       *)
(***************************************************************************)
EXTENDS Primes, PipeTree, ForkTools, Find

CONSTANTS
  Orders,    \* the pipelines that are tried, each a sequence of programs
  MaxFails   \* bound: the calls of pipe() and fork() that fail in a run

VARIABLES
  job,       \* which program this is
  failed     \* the calls of pipe() and fork() that have failed

allVars == <<vars, printed, tty, cmds, batches, found, findVars, job, failed>>

Init ==
  /\ printed = <<>> /\ batches = <<>> /\ failed = 0
  /\ \/ job = "primes" /\ PrimesStart /\ cmds = <<>> /\ found = TRUE /\ FindIdle
     \/ job = "pingpong" /\ PingStart /\ cmds = <<>> /\ found = TRUE /\ FindIdle
     \/ job = "xargs" /\ XargsStart(Lines) /\ cmds = <<>> /\ found \in BOOLEAN /\ FindIdle
     \/ job = "pipeline" /\ TreeStart /\ cmds \in Orders /\ found = TRUE /\ FindIdle
     \/ job = "find" /\ FindStart /\ tree \in Trees /\ cmds = <<>> /\ found = TRUE
  /\ tty \in IF job = "primes" THEN BOOLEAN ELSE {TRUE}

Works(p) ==
  /\ \/ job = "primes" /\ PrimesStep(p) /\ UNCHANGED <<cmds, toolVars, findVars>>
     \/ job = "pipeline" /\ TreeStep(p) /\ UNCHANGED <<printed, toolVars, findVars>>
     \/ job = "pingpong" /\ (PingStep(p) \/ ToolExit(p)) /\ UNCHANGED <<printed, cmds, findVars>>
     \/ job = "xargs" /\ (XargsStep(p) \/ ToolExit(p)) /\ UNCHANGED <<printed, cmds, findVars>>
     \/ job = "find" /\ FindStep(p) /\ UNCHANGED <<printed, cmds, toolVars>>
  /\ UNCHANGED failed

\* A call of pipe() or fork() fails for want of a process or a descriptor.
Fails(p) ==
  /\ failed < MaxFails /\ failed' = failed + 1
  /\ \/ job = "primes" /\ PrimesFails(p) /\ UNCHANGED <<cmds, toolVars, findVars>>
     \/ job = "pipeline" /\ TreeFails(p) /\ UNCHANGED <<printed, toolVars, findVars>>
     \/ job = "pingpong" /\ PingFails(p) /\ UNCHANGED <<printed, cmds, findVars>>
     \/ job = "xargs" /\ XargsFails(p) /\ UNCHANGED <<printed, cmds, findVars>>

Step(p) == (Works(p) \/ Fails(p)) /\ UNCHANGED <<job, tty>>

Next == \E p \in Proc : Step(p)

\* The system runs every process that can run.
Spec == Init /\ [][Next]_allVars /\ \A p \in Proc : WF_allVars(Step(p))

-----------------------------------------------------------------------------
Ended == st[0] # "running"

\* The one that the user waits for ends after all the others.
EndsLast == Ended => \A p \in Proc : st[p] # "running"

IsPrime(n) == n > 1 /\ \A k \in 2..(n - 1) : n % k # 0
PrimesToN == {n \in 2..MaxN : IsPrime(n)}
Times(n) == Cardinality({i \in DOMAIN printed : printed[i] = n})

\* The sieve prints primes and nothing else (primes.c:29-62).  On a terminal they
\* come in order, each once.  Anywhere else each comes once from every filter that
\* was there when it was printed or was forked after that, the last one included:
\* every filter writes out the lines it inherited (primes.c:39, 41, 66).
SievePrints ==
  /\ \A i \in DOMAIN printed : printed[i] \in PrimesToN
  /\ tty => \A i, j \in DOMAIN printed : i < j => printed[i] < printed[j]
  /\ job = "primes" /\ Ended /\ failed = 0 =>
       \A n \in PrimesToN :
         Times(n) = IF tty THEN 1 ELSE Cardinality({q \in PrimesToN : q >= n}) + 1

\* exec_cmd() of a pipe succeeds only when all the commands it ran did, and when no
\* fork() failed it ran all of them and succeeds if they did.  After a fork() that
\* failed it may succeed without a command of the line (exec.c:268-274).
Commands == {p \in Proc : st[p] # "unborn" /\ \A c \in Proc : father[c] # p}
AllOrFailure ==
  job = "pipeline" /\ Ended =>
    /\ code[0] = 0 => \A p \in Commands : code[p] = 0
    /\ failed = 0 => /\ Cardinality(Commands) = Len(cmds)
                     /\ (\A p \in Commands : code[p] = 0) => code[0] = 0

\* xargs hands its lines over in order, Nargs at a time, each to one program; only
\* those of a fork() that failed go to none, and the later ones are not affected.
Batch(k) == [i \in 1..(IF k * Nargs <= Lines THEN Nargs ELSE Lines % Nargs) |->
               Lines + 1 - ((k - 1) * Nargs + i)]
Batches == (Lines + Nargs - 1) \div Nargs
EachLineOnce ==
  job = "xargs" /\ found /\ Ended =>
    /\ Len(batches) = Batches - failed
    /\ \A b \in DOMAIN batches : \E k \in 1..Batches : batches[b] = Batch(k)
    /\ \A a, b \in DOMAIN batches : a < b => batches[a][1] > batches[b][1]

\* find prints the path of every entry that matches and that it can reach, once.
Above(e) == CHOOSE a \in SUBSET DOMAIN tree.in :
              a = {tree.in[x] : x \in {e} \cup a} \ {None}
PathOf(e) == [i \in 1..(Cardinality(Above(e)) + 1) |->
                CHOOSE x \in {e} \cup Above(e) : Cardinality(Above(x)) = i - 1]
ReachedOnce ==
  job = "find" /\ Ended /\ code[0] = 0 =>
    /\ \A i, j \in DOMAIN shown : shown[i] = shown[j] => i = j
    /\ {shown[i] : i \in DOMAIN shown} =
         {PathOf(e) : e \in {x \in tree.named : Above(x) \cap refused = {}}}

\* Whatever order the processes run in and whichever forks fail, the first one ends
\* last, a pipeline succeeds only if its commands do, xargs hands each line over at
\* most once, and find prints what it can reach.
Results == EndsLast /\ AllOrFailure /\ EachLineOnce /\ ReachedOnce

\* Every program comes to its end: the descriptors that are closed let the end of
\* file, or a broken pipe, reach everybody, and nobody waits for ever.
EveryoneEnds == <>(\A p \in Proc : st[p] # "running")
=============================================================================
