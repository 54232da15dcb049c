------------------------------- MODULE Kernel -------------------------------
(***************************************************************************)
(* The SMP core of the JOS kernel in src/sched: the environments of        *)
(* kern/env.c, the big kernel lock of kern/spinlock.h, the way into and    *)
(* out of the kernel of kern/trap.c, the scheduler's frame of kern/sched.c *)
(* and the system calls of kern/syscall.c that change an environment.      *)
(*                                                                         *)
(* Kernel code runs under one lock, so the work of a handler is one        *)
(* action.  What happens without the lock is a step of its own: the trap   *)
(* itself, the spinning for the lock, and the end of env_run, which writes *)
(* env_cpunum and reads env_tf after unlock_kernel().                      *)
(*                                                                         *)
(* Which of the eligible environments sched_yield() takes is left open     *)
(* here; RoundRobin and Lottery choose it as the two builds of sched.c do. *)
(***************************************************************************)
EXTENDS Integers, Sequences, FiniteSets

CONSTANTS
  Cpu,         \* the processors, cpus[0 .. ncpu-1]
  BootCpu,     \* the bootstrap processor
  NoCpu,       \* "no processor holds the lock"
  NENV,        \* number of slots in envs[]
  NInit,       \* environments made by ENV_CREATE in i386_init()
  MaxGen,      \* generations an env_id counts before it wraps around to 1
  LibUsers     \* TRUE: programs call the kernel only as lib/ and user/ do

ASSUME CpuAssumption == BootCpu \in Cpu /\ NoCpu \notin Cpu
ASSUME SizeAssumption == /\ NENV \in Nat \ {0} /\ NInit \in 1 .. NENV
                         /\ MaxGen \in Nat \ {0}
ASSUME UsersAssumption == LibUsers \in BOOLEAN

Env == 0 .. NENV - 1
NoEnv == -1                      \* a NULL struct Env *
NoId == <<0, 0>>                 \* envid 0: nobody's parent
EnvId == Env \X (0 .. MaxGen)    \* index part, uniqueifier

Status == {"FREE", "DYING", "RUNNABLE", "RUNNING", "NOT_RUNNABLE"}

(***************************************************************************)
(* Where a processor is.                                                   *)
(*   boot     an AP in mp_main(), spinning for the kernel lock             *)
(*   user     running its curenv in user mode                              *)
(*   entry    trapped from user mode, spinning for the lock                *)
(*   halted   CPU_HALTED, in the hlt loop of sched_halt()                  *)
(*   wake     interrupted out of hlt, spinning for the lock                *)
(*   trap     in trap() with the lock, before the dispatch                 *)
(*   sched    in sched_yield() with the lock                               *)
(*   leave    in env_run() after unlock_kernel()                           *)
(*   monitor  in the loop at the end of sched_halt(), with the lock        *)
(*   debug    in monitor() for a breakpoint: none of its commands returns  *)
(*            -1, so it never comes back, and it has the lock              *)
(*   panic    stopped in _panic(), the lock never released                 *)
(***************************************************************************)
Spinning == {"boot", "entry", "wake"}
Locked   == {"trap", "sched", "monitor", "debug", "panic"}
Places   == Spinning \cup Locked \cup {"user", "halted", "leave"}

VARIABLES
  lock,      \* who holds kernel_lock
  pc,        \* pc[c]: where c is
  curenv,    \* curenv[c]: cpus[c].cpu_env
  status,    \* env_status
  gen,       \* the uniqueifier in env_id
  parent,    \* env_parent_id
  pgdir,     \* pgdir[e]: env_pgdir is not NULL
  recving,   \* env_ipc_recving
  cpunum,    \* env_cpunum
  freeList   \* env_free_list, head first

envVars == <<status, gen, parent, pgdir, recving, freeList>>
vars == <<lock, pc, curenv, status, gen, parent, pgdir, recving, cpunum, freeList>>

IdOf(e) == <<e, gen[e]>>
Cur(c) == curenv[c]

TypeOK ==
  /\ lock \in Cpu \cup {NoCpu}
  /\ pc \in [Cpu -> Places]
  /\ curenv \in [Cpu -> Env \cup {NoEnv}]
  /\ status \in [Env -> Status]
  /\ gen \in [Env -> 0 .. MaxGen]
  /\ parent \in [Env -> EnvId]
  /\ pgdir \in [Env -> BOOLEAN]
  /\ recving \in [Env -> BOOLEAN]
  /\ cpunum \in [Env -> Cpu]
  /\ freeList \in Seq(Env)

\* i386_init(): the boot processor has the lock and has created its programs;
\* the other processors are up and wait for the lock in mp_main().
Init ==
  /\ lock = BootCpu
  /\ pc = [c \in Cpu |-> IF c = BootCpu THEN "sched" ELSE "boot"]
  /\ curenv = [c \in Cpu |-> NoEnv]
  /\ status = [e \in Env |-> IF e < NInit THEN "RUNNABLE" ELSE "FREE"]
  /\ gen = [e \in Env |-> IF e < NInit THEN 1 ELSE 0]
  /\ parent = [e \in Env |-> NoId]
  /\ pgdir = [e \in Env |-> e < NInit]
  /\ recving = [e \in Env |-> FALSE]
  /\ cpunum = [e \in Env |-> BootCpu]
  /\ freeList = [i \in 1 .. NENV - NInit |-> NInit + i - 1]

-----------------------------------------------------------------------------
(* Entering the kernel.                                                    *)

\* Any interrupt, exception or int 0x30 of a user program: trap() is entered
\* and spins in lock_kernel().
TrapFromUser(c) ==
  /\ pc[c] = "user"
  /\ pc' = [pc EXCEPT ![c] = "entry"]
  /\ UNCHANGED <<lock, curenv, envVars, cpunum>>

\* The timer wakes a halted processor, which trap() sends to lock_kernel().
TrapFromHalt(c) ==
  /\ pc[c] = "halted"
  /\ pc' = [pc EXCEPT ![c] = "wake"]
  /\ UNCHANGED <<lock, curenv, envVars, cpunum>>

\* The xchg in spin_lock() that finds the lock free.
Acquire(c) ==
  /\ pc[c] \in Spinning
  /\ lock = NoCpu
  /\ lock' = c
  /\ pc' = [pc EXCEPT ![c] = IF pc[c] = "boot" THEN "sched" ELSE "trap"]
  /\ UNCHANGED <<curenv, envVars, cpunum>>

-----------------------------------------------------------------------------
(* Leaving the kernel.                                                     *)

Panic(c) == /\ pc' = [pc EXCEPT ![c] = "panic"]
            /\ UNCHANGED <<lock, curenv, envVars, cpunum>>

\* The end of trap(): back to curenv if it is still RUNNING (env_run, which
\* unlocks the kernel), to the scheduler otherwise.
Return(c) ==
  /\ UNCHANGED cpunum
  /\ IF curenv'[c] # NoEnv /\ status'[curenv'[c]] = "RUNNING"
       THEN /\ pc' = [pc EXCEPT ![c] = "leave"]
            /\ lock' = NoCpu
       ELSE /\ pc' = [pc EXCEPT ![c] = "sched"]
            /\ UNCHANGED lock

\* A call or an interrupt that ends in sched_yield().
GoSched(c) == /\ pc' = [pc EXCEPT ![c] = "sched"]
              /\ UNCHANGED <<lock, cpunum>>

\* Seeded fault: env_run() does not record the processor.
LeaveUnrecorded(c) ==
  /\ pc[c] = "leave"
  /\ pc' = [pc EXCEPT ![c] = "user"]
  /\ UNCHANGED <<lock, curenv, envVars, cpunum>>

\* The last statements of env_run(), done without the lock.
Leave(c) ==
  /\ pc[c] = "leave"
  /\ pc' = [pc EXCEPT ![c] = "user"]
  /\ cpunum' = [cpunum EXCEPT ![Cur(c)] = c]
  /\ UNCHANGED <<lock, curenv, envVars>>

-----------------------------------------------------------------------------
(* The scheduler.                                                          *)

\* Seeded fault: the scan takes environments that run on another processor.
RunnableOrRunning == {e \in Env : status[e] \in {"RUNNABLE", "RUNNING"}}

Runnable == {e \in Env : status[e] = "RUNNABLE"}

\* What a scan of envs[] may hand to env_run(): a RUNNABLE environment, or
\* curenv when it is still RUNNING and there is no RUNNABLE one.
Eligible(c) ==
  IF Runnable # {} THEN Runnable
  ELSE {e \in {Cur(c)} \ {NoEnv} : status[e] = "RUNNING"}

\* The state curenv is left in when env_run() switches away from it.
Preempted(c) ==
  IF Cur(c) # NoEnv /\ status[Cur(c)] = "RUNNING"
    THEN [status EXCEPT ![Cur(c)] = "RUNNABLE"] ELSE status

\* env_run(e) up to unlock_kernel(); PADDR(NULL) panics in env_load_pgdir().
EnvRun(c, e) ==
  /\ status' = [Preempted(c) EXCEPT ![e] = "RUNNING"]
  /\ curenv' = [curenv EXCEPT ![c] = e]
  /\ IF pgdir[e]
       THEN lock' = NoCpu /\ pc' = [pc EXCEPT ![c] = "leave"]
       ELSE UNCHANGED lock /\ pc' = [pc EXCEPT ![c] = "panic"]
  /\ UNCHANGED <<gen, parent, pgdir, recving, freeList, cpunum>>

\* Seeded fault: sched_halt() halts without unlock_kernel().
SchedHaltLocked(c) ==
  /\ curenv' = [curenv EXCEPT ![c] = NoEnv]
  /\ pc' = [pc EXCEPT ![c] = "halted"]
  /\ UNCHANGED <<lock, envVars, cpunum>>

\* Seeded fault: sched_halt() overlooks what runs on other processors.
SchedHaltHasty(c) ==
  /\ pc' = [pc EXCEPT ![c] = "monitor"]
  /\ UNCHANGED <<lock, curenv, envVars, cpunum>>

\* sched_halt(): the monitor when nothing can ever run again.
SchedHalt(c) ==
  IF \E e \in Env : status[e] \in {"RUNNABLE", "RUNNING", "DYING"}
    THEN /\ curenv' = [curenv EXCEPT ![c] = NoEnv]
         /\ pc' = [pc EXCEPT ![c] = "halted"]
         /\ lock' = NoCpu
         /\ UNCHANGED <<envVars, cpunum>>
    ELSE /\ pc' = [pc EXCEPT ![c] = "monitor"]
         /\ UNCHANGED <<lock, curenv, envVars, cpunum>>

SchedRun(c, e) == pc[c] = "sched" /\ e \in Eligible(c) /\ EnvRun(c, e)
SchedIdle(c)   == pc[c] = "sched" /\ Eligible(c) = {} /\ SchedHalt(c)

\* The loops of monitor(), and those around it in sched_halt() and _panic().
Stopped(c) == pc[c] \in {"monitor", "debug", "panic"} /\ UNCHANGED vars

-----------------------------------------------------------------------------
(* The life of an environment.                                             *)

\* Seeded fault: the generation does not wrap around.
EnvAllocNoWrap(e, creator, st) ==
  /\ freeList' = Tail(freeList)
  /\ gen' = [gen EXCEPT ![e] = @ + 1]
  /\ parent' = [parent EXCEPT ![e] = creator]
  /\ status' = [status EXCEPT ![e] = st]
  /\ pgdir' = [pgdir EXCEPT ![e] = TRUE]
  /\ recving' = [recving EXCEPT ![e] = FALSE]

\* env_alloc(e), then the status its caller leaves it in.
EnvAlloc(e, creator, st) ==
  /\ freeList' = Tail(freeList)
  /\ gen' = [gen EXCEPT ![e] = IF @ = MaxGen THEN 1 ELSE @ + 1]
  /\ parent' = [parent EXCEPT ![e] = creator]
  /\ status' = [status EXCEPT ![e] = st]
  /\ pgdir' = [pgdir EXCEPT ![e] = TRUE]
  /\ recving' = [recving EXCEPT ![e] = FALSE]

\* Seeded fault: the slot does not go back to the free list.
EnvFreeLost(e) ==
  /\ status' = [status EXCEPT ![e] = "FREE"]
  /\ pgdir' = [pgdir EXCEPT ![e] = FALSE]
  /\ UNCHANGED <<gen, parent, recving, freeList>>

EnvFree(e) ==
  /\ status' = [status EXCEPT ![e] = "FREE"]
  /\ pgdir' = [pgdir EXCEPT ![e] = FALSE]
  /\ freeList' = <<e>> \o freeList
  /\ UNCHANGED <<gen, parent, recving>>

\* Seeded fault: env_destroy() frees whatever the other processors do.
NeverElsewhere(c, e) == FALSE

RunsElsewhere(c, e) == status[e] = "RUNNING" /\ Cur(c) # e

\* env_destroy(e) and the way out of the trap that called it.  Freeing an
\* environment without a page directory faults in the kernel.
EnvDestroy(c, e) ==
  \/ /\ RunsElsewhere(c, e)
     /\ status' = [status EXCEPT ![e] = "DYING"]
     /\ UNCHANGED <<curenv, gen, parent, pgdir, recving, freeList>>
     /\ Return(c)
  \/ /\ ~RunsElsewhere(c, e)
     /\ pgdir[e]
     /\ EnvFree(e)
     /\ curenv' = IF Cur(c) = e THEN [curenv EXCEPT ![c] = NoEnv] ELSE curenv
     /\ Return(c)
  \/ /\ ~RunsElsewhere(c, e)
     /\ ~pgdir[e]
     /\ Panic(c)

\* trap(): curenv was killed by another processor while it ran here.
Zombie(c) ==
  /\ pc[c] = "trap"
  /\ Cur(c) # NoEnv
  /\ status[Cur(c)] = "DYING"
  /\ EnvFree(Cur(c))
  /\ curenv' = [curenv EXCEPT ![c] = NoEnv]
  /\ GoSched(c)

-----------------------------------------------------------------------------
(* What trap_dispatch() does for the interrupted environment.              *)

\* Seeded fault: trap() does not look for zombies.
DispatchingAny(c) == pc[c] = "trap" /\ Cur(c) # NoEnv

Dispatching(c) == /\ pc[c] = "trap"
                  /\ Cur(c) # NoEnv
                  /\ status[Cur(c)] # "DYING"

\* envid2env(): the environments a call of curenv can name.  Envid 0 is
\* curenv, whatever its status; any other id must be that of a slot in use.
Named(c, checkperm) ==
  {Cur(c)} \cup
  {e \in Env : /\ status[e] # "FREE"
               /\ checkperm => parent[e] = IdOf(Cur(c))}

\* The timer interrupt, of a running or of a halted processor.
Timer(c) ==
  /\ pc[c] = "trap"
  /\ Cur(c) = NoEnv \/ Dispatching(c)
  /\ UNCHANGED <<curenv, envVars>>
  /\ GoSched(c)

SysYield(c) ==
  /\ Dispatching(c)
  /\ UNCHANGED <<curenv, envVars>>
  /\ GoSched(c)

\* Every trap that leaves the environments alone: the calls that read, that
\* work on pages, that fail, a page fault handed to an upcall.
Harmless(c) ==
  /\ Dispatching(c)
  /\ UNCHANGED <<curenv, envVars>>
  /\ Return(c)

\* T_BRKPT: the int3 of user/breakpoint.c, and of lib/panic.c.
Breakpoint(c) ==
  /\ Dispatching(c)
  /\ pc' = [pc EXCEPT ![c] = "debug"]
  /\ UNCHANGED <<lock, curenv, envVars, cpunum>>

\* page_fault_handler() when the exception stack is full: the frame is written
\* below it, which faults in the kernel.  No handler of lib/ or user/ faults
\* that often in itself.
Overflow(c) == Dispatching(c) /\ ~LibUsers /\ Panic(c)

SysExofork(c) ==
  /\ Dispatching(c)
  /\ freeList # <<>>
  /\ EnvAlloc(Head(freeList), IdOf(Cur(c)), "NOT_RUNNABLE")
  /\ UNCHANGED curenv
  /\ Return(c)

\* fork() starts a child it has just made; nothing in lib/ or user/ calls
\* sys_env_set_status() on anything else.
SysEnvSetStatus(c, e, st) ==
  /\ Dispatching(c)
  /\ e \in Named(c, TRUE)
  /\ LibUsers => /\ st = "RUNNABLE"
                 /\ status[e] = "NOT_RUNNABLE" /\ ~recving[e]
  /\ status' = [status EXCEPT ![e] = st]
  /\ UNCHANGED <<curenv, gen, parent, pgdir, recving, freeList>>
  /\ Return(c)

\* Programs destroy themselves (exit) or a child, and a child only once.
SysEnvDestroy(c, e) ==
  /\ Dispatching(c)
  /\ e \in Named(c, TRUE)
  /\ LibUsers => status[e] # "DYING"
  /\ EnvDestroy(c, e)

\* A fault without an upcall, an unexpected trap, or user_mem_assert().
Fault(c) == Dispatching(c) /\ EnvDestroy(c, Cur(c))

SysIpcRecv(c) ==
  /\ Dispatching(c)
  /\ recving' = [recving EXCEPT ![Cur(c)] = TRUE]
  /\ status' = [status EXCEPT ![Cur(c)] = "NOT_RUNNABLE"]
  /\ UNCHANGED <<curenv, gen, parent, pgdir, freeList>>
  /\ GoSched(c)

\* sys_ipc_recv() with a bad dstva: the flag is set before the check.
\* ipc_recv() in lib/ipc.c passes an aligned address or 0.
SysIpcRecvBad(c) ==
  /\ Dispatching(c)
  /\ ~LibUsers
  /\ recving' = [recving EXCEPT ![Cur(c)] = TRUE]
  /\ UNCHANGED <<curenv, status, gen, parent, pgdir, freeList>>
  /\ Return(c)

\* A sys_ipc_try_send() that finds its receiver waiting and succeeds.
SysIpcTrySend(c, e) ==
  /\ Dispatching(c)
  /\ e \in Named(c, FALSE)
  /\ recving[e]
  /\ recving' = [recving EXCEPT ![e] = FALSE]
  /\ status' = [status EXCEPT ![e] = "RUNNABLE"]
  /\ UNCHANGED <<curenv, gen, parent, pgdir, freeList>>
  /\ Return(c)

-----------------------------------------------------------------------------
\* The steps that are the same whichever environment the scheduler picks.
Other(c) ==
  \/ TrapFromUser(c) \/ TrapFromHalt(c) \/ Acquire(c) \/ Leave(c)
  \/ SchedIdle(c) \/ Stopped(c)
  \/ Zombie(c) \/ Timer(c) \/ SysYield(c) \/ Harmless(c) \/ Fault(c)
  \/ Breakpoint(c) \/ Overflow(c)
  \/ SysExofork(c) \/ SysIpcRecv(c) \/ SysIpcRecvBad(c)
  \/ \E e \in Env : \/ SysEnvDestroy(c, e) \/ SysIpcTrySend(c, e)
                    \/ \E st \in {"RUNNABLE", "NOT_RUNNABLE"} :
                         SysEnvSetStatus(c, e, st)

Next == \E c \in Cpu : Other(c) \/ \E e \in Env : SchedRun(c, e)

Spec == Init /\ [][Next]_vars

-----------------------------------------------------------------------------
(* Properties.                                                             *)

\* A processor outside the critical section that its curenv owns.
InUser == {"user", "leave", "entry"}

\* kernel_lock is held by exactly the processor that is between lock_kernel()
\* and unlock_kernel(), on every path through trap(), env_run(), sched_halt().
LockDiscipline == \A c \in Cpu : lock = c <=> pc[c] \in Locked

\* "Check that one environment doesn't run on two CPUs at once"
\* (user/stresssched.c:25): no two processors have the same curenv.
OneCpu ==
  \A c, d \in Cpu : c # d /\ Cur(c) # NoEnv => Cur(c) # Cur(d)

\* A processor in a user program has an environment, and env_status of that
\* environment says that it is on a processor.
CurenvOnCpu ==
  \A c \in Cpu : pc[c] \in InUser =>
     Cur(c) # NoEnv /\ status[Cur(c)] \in {"RUNNING", "DYING"}

\* An environment said to be on a processor is the curenv of one, so that a
\* RUNNING one is never forgotten and a DYING one has someone to free it.
RunningHasCpu ==
  \A e \in Env : status[e] \in {"RUNNING", "DYING"} =>
     \E c \in Cpu : Cur(c) = e

\* env_free_list holds each FREE slot once, and a slot has a page directory
\* exactly while it is not on the list.
FreeListExact ==
  /\ \A i, j \in DOMAIN freeList : i # j => freeList[i] # freeList[j]
  /\ \A e \in Env :
       /\ status[e] = "FREE" <=> \E i \in DOMAIN freeList : freeList[i] = e
       /\ status[e] = "FREE" <=> ~pgdir[e]

\* "Env is blocked receiving" (inc/env.h:57): an environment whose
\* env_ipc_recving is set does not run and is not about to.
RecvingBlocked ==
  \A e \in Env : recving[e] => status[e] \in {"NOT_RUNNABLE", "FREE"}

\* A running program reads its own processor in thisenv->env_cpunum, although
\* env_run() writes it after giving up the lock (user/stresssched.c:36).
CpunumRight ==
  \A c \in Cpu : pc[c] \in {"user", "entry"} => cpunum[Cur(c)] = c

\* No call sequence of the programs in lib/ and user/ panics the kernel.
NoPanic == \A c \in Cpu : pc[c] # "panic"

\* A processor in a program, or on its way in or out, has the page directory of
\* its environment loaded: it is never freed under it.
PgdirLoaded == \A c \in Cpu : pc[c] \in InUser => Cur(c) # NoEnv /\ pgdir[Cur(c)]

\* When sched_halt() gives up, no processor is left inside a user program (a
\* breakpoint, on the other hand, stops the kernel whoever is running).
MonitorStrandsNobody ==
  \A c, d \in Cpu : pc[c] = "monitor" => pc[d] \notin InUser

\* What curenv may be at each place in the code.
CurenvByPlace ==
  \A c \in Cpu :
    /\ pc[c] \in {"boot", "halted", "wake"} => Cur(c) = NoEnv
    /\ pc[c] = "trap" => \/ Cur(c) = NoEnv
                         \/ status[Cur(c)] \in {"RUNNING", "DYING"}
    /\ pc[c] = "sched" => \/ Cur(c) = NoEnv
                          \/ status[Cur(c)] \in {"RUNNING", "NOT_RUNNABLE"}
    /\ pc[c] = "debug" => Cur(c) # NoEnv /\ status[Cur(c)] = "RUNNING"
    /\ pc[c] = "monitor" => \A e \in Env : status[e] \in {"FREE", "NOT_RUNNABLE"}

\* The inductive invariant behind the properties above, for programs that call
\* the kernel as lib/ and user/ do: who has which environment, at every place.
OwnInv == /\ LockDiscipline /\ NoPanic
          /\ CurenvByPlace /\ CurenvOnCpu
          /\ OneCpu /\ RunningHasCpu
          /\ RecvingBlocked /\ CpunumRight /\ FreeListExact

\* env_destroy() frees an environment only when no other processor is using
\* it: "If e is currently running on other CPUs, we change its state to
\* ENV_DYING" (kern/env.c:470).
ReclaimedOffCpu ==
  [][\A e \in Env : status[e] # "FREE" /\ status'[e] = "FREE" =>
        \A c \in Cpu : Cur(c) = e => pc[c] = "trap"]_vars

\* A kill is final: a DYING environment only ever becomes FREE ("A zombie
\* environment will be freed the next time it traps", kern/env.c:471).
DyingIsFinal ==
  [][\A e \in Env : status[e] = "DYING" => status'[e] \in {"DYING", "FREE"}]_vars

-----------------------------------------------------------------------------
(* The kernel implements EnvOwnership.                                     *)

OnCpu(c) == IF Cur(c) # NoEnv /\ status[Cur(c)] \in {"RUNNING", "DYING"}
              THEN Cur(c) ELSE NoEnv

Ownership == INSTANCE EnvOwnership WITH
  alive     <- {e \in Env : status[e] # "FREE"},
  condemned <- {e \in Env : status[e] = "DYING"},
  on        <- [c \in Cpu |-> OnCpu(c)]

\* Environments, processors and kills behave as EnvOwnership says.
ImplementsOwnership == Ownership!Spec

-----------------------------------------------------------------------------
(* Liveness.  The timer interrupts every user program and every halted     *)
(* processor, and a program that keeps entering the kernel by itself still *)
(* takes the tick when it is back in user mode; kernel code, once it has   *)
(* the lock, runs to its end; a processor that spins on xchg gets the lock *)
(* if it is released again and again.                                      *)

SchedStep(c) == SchedIdle(c) \/ \E e \in Env : SchedRun(c, e)

Fairness ==
  \A c \in Cpu :
    /\ WF_vars(TrapFromUser(c)) /\ WF_vars(TrapFromHalt(c))
    /\ SF_vars(Acquire(c))
    /\ WF_vars(Zombie(c)) /\ SF_vars(Timer(c))
    /\ WF_vars(SchedStep(c))
    /\ WF_vars(Leave(c))

FairSpec == Spec /\ Fairness

\* Some processor keeps the lock in monitor() for a breakpoint.
Debugged == \E d \in Cpu : pc[d] = "debug"

\* A killed environment that was running elsewhere is freed in the end, even if
\* its program never calls the kernel again, unless a breakpoint stops the kernel.
DyingIsFreed ==
  \A e \in Env : status[e] = "DYING" ~> status[e] = "FREE" \/ Debugged

\* A processor that enters the kernel gets the lock, or the kernel has stopped
\* for good, in sched_halt() or at a breakpoint.
LockGranted ==
  \A c \in Cpu : pc[c] \in Spinning ~>
     \/ pc[c] \in Locked
     \/ Debugged \/ \E d \in Cpu : pc[d] = "monitor"
=============================================================================
