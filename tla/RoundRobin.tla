----------------------------- MODULE RoundRobin -----------------------------
(***************************************************************************)
(* The kernel built with SCHED_ROUND_ROBIN: sched_yield() scans envs[]     *)
(* circularly from the slot after curenv, or from slot 0 without a curenv. *)
(***************************************************************************)
EXTENDS Kernel, FiniteSetsExt

\* Seeded fault: the scan always starts at slot 0.
ScanFromZero(c) == 0

\* The slot the scan of processor c starts at.
ScanFrom(c) == IF Cur(c) = NoEnv THEN 0 ELSE Cur(c) + 1

\* Seeded fault: the scan does not look at env_status.
FirstSlot(pos) == IF pos < NENV THEN pos ELSE 0

\* The two calls of get_next_runnable_process(): pos .. NENV-1, then 0 .. pos-1.
FirstFrom(pos) == LET ahead == {e \in Runnable : e >= pos}
                  IN  IF ahead # {} THEN Min(ahead) ELSE Min(Runnable)

RRRun(c) ==
  /\ pc[c] = "sched"
  /\ \/ /\ Runnable # {}
        /\ EnvRun(c, FirstFrom(ScanFrom(c)))
     \/ /\ Runnable = {}
        /\ Cur(c) # NoEnv /\ status[Cur(c)] = "RUNNING"
        /\ EnvRun(c, Cur(c))

RRNext == \E c \in Cpu : RRRun(c) \/ Other(c)

RRSpec == Init /\ [][RRNext]_vars

\* The fairness of Kernel, with this scheduler.
RRFairness ==
  \A c \in Cpu :
    /\ WF_vars(TrapFromUser(c))
    /\ WF_vars(TrapFromHalt(c))
    /\ SF_vars(Acquire(c))
    /\ WF_vars(Zombie(c))
    /\ SF_vars(Timer(c))
    /\ WF_vars(RRRun(c) \/ SchedIdle(c))
    /\ WF_vars(Leave(c))

\* What processors do while no program forks, exits or is killed.
Settled(c) ==
  \/ TrapFromUser(c) \/ TrapFromHalt(c) \/ Acquire(c) \/ Leave(c)
  \/ SchedIdle(c) \/ Stopped(c)
  \/ Timer(c) \/ SysYield(c) \/ Harmless(c) \/ SysIpcRecv(c) \/ SysIpcRecvBad(c)
  \/ Breakpoint(c) \/ Overflow(c)
  \/ \E e \in Env : \/ SysIpcTrySend(c, e)
                    \/ \E st \in {"RUNNABLE", "NOT_RUNNABLE"} : SysEnvSetStatus(c, e, st)

\* The same kernel under programs that compute, yield and exchange messages but
\* have stopped forking and exiting, from when each of them is RUNNABLE.
SettledNext == \E c \in Cpu : RRRun(c) \/ Settled(c)
SettledSpec == Init /\ [][SettledNext]_vars /\ RRFairness

-----------------------------------------------------------------------------
\* What the scan finds is always something Kernel lets the scheduler run: a
\* RUNNABLE environment, or curenv when there is none.
ImplementsKernel == Spec

\* Under settled programs every RUNNABLE environment gets a processor, however
\* many processors scan the same array, unless a program stops the kernel by a
\* breakpoint or by overflowing its exception stack.
EveryoneRuns ==
  \A e \in Env : status[e] = "RUNNABLE" ~>
     \/ status[e] # "RUNNABLE"
     \/ \E c \in Cpu : pc[c] \in {"debug", "panic"}
=============================================================================
