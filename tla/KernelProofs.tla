---------------------------- MODULE KernelProofs ----------------------------
(* Proofs about Kernel, for every number of processors and environments.   *)
EXTENDS Kernel, TLAPS, SequenceTheorems, WellFoundedInduction

LEMMA EnvFacts == NoEnv \notin Env /\ Env \subseteq Int /\ NoId \in EnvId
  BY SizeAssumption DEF Env, NoEnv, NoId, EnvId

LEMMA LeastNat ==
  ASSUME NEW T \in SUBSET Nat, T # {} PROVE \E x \in T : \A y \in T : x =< y
<1>1. PICK x \in T : \A y \in T : <<y, x>> \notin OpToRel(<, Nat)
  BY NatLessThanWellFounded, WFMin
<1>2. \A y \in T : ~(y < x)
  BY <1>1 DEF OpToRel
<1> QED BY <1>2

\* What the scans of sched.c rely on: slots have a first and a last one.
LEMMA FirstAndLastSlot ==
  ASSUME NEW S \in SUBSET Env, S # {}
  PROVE  /\ \E x \in S : \A y \in S : x =< y
         /\ \E x \in S : \A y \in S : x >= y
<1>1. ASSUME NEW T \in SUBSET Nat, T # {}
      PROVE  \E x \in T : \A y \in T : x =< y
  BY <1>1, LeastNat
<1>2. S \subseteq Nat
  BY DEF Env
<1> DEFINE R == {NENV - 1 - e : e \in S}
<1>3. R \subseteq Nat /\ R # {}
  <2>1. \A e \in S : NENV - 1 - e \in Nat
    BY SizeAssumption DEF Env
  <2> QED BY <2>1
<1>4. PICK x \in R : \A y \in R : x =< y
  BY <1>1, <1>3
<1>5. PICK e \in S : x = NENV - 1 - e
  BY <1>4
<1>6. \A d \in S : e >= d
  BY <1>2, <1>4, <1>5, SizeAssumption
<1> QED BY <1>1, <1>2, <1>6

LEMMA InitType == Init => TypeOK
<1> SUFFICES ASSUME Init PROVE TypeOK
  OBVIOUS
<1>1. freeList \in Seq(Env)
  <2>1. \A i \in 1 .. NENV - NInit : NInit + i - 1 \in Env
    BY SizeAssumption DEF Env
  <2>2. NENV - NInit \in Nat
    BY SizeAssumption
  <2> QED BY <2>1, <2>2 DEF Init
<1>2. parent \in [Env -> EnvId] /\ gen \in [Env -> 0 .. MaxGen]
  BY EnvFacts, SizeAssumption DEF Init
<1>3. pc \in [Cpu -> Places]
  BY DEF Init, Places, Spinning, Locked
<1> QED BY <1>1, <1>2, <1>3, CpuAssumption DEF Init, TypeOK, Status

LEMMA ReturnType ==
  ASSUME TypeOK, NEW c \in Cpu, Return(c)
  PROVE  pc' \in [Cpu -> Places] /\ lock' \in Cpu \cup {NoCpu} /\ cpunum' = cpunum
BY DEF TypeOK, Return, Places, Spinning, Locked

LEMMA EnvDestroyType ==
  ASSUME TypeOK, NEW c \in Cpu, NEW e \in Env, EnvDestroy(c, e)
  PROVE  TypeOK'
<1>1. CASE RunsElsewhere(c, e) /\ status' = [status EXCEPT ![e] = "DYING"]
           /\ UNCHANGED <<curenv, gen, parent, pgdir, recving, freeList>>
           /\ Return(c)
  BY <1>1, ReturnType DEF TypeOK, Status
<1>2. CASE EnvFree(e) /\ Return(c)
           /\ curenv' = IF Cur(c) = e THEN [curenv EXCEPT ![c] = NoEnv] ELSE curenv
  <2>1. freeList' \in Seq(Env)
    BY <1>2 DEF EnvFree, TypeOK
  <2>2. curenv' \in [Cpu -> Env \cup {NoEnv}]
    BY <1>2 DEF TypeOK
  <2> QED BY <1>2, <2>1, <2>2, ReturnType DEF EnvFree, TypeOK, Status
<1>3. CASE Panic(c)
  BY <1>3 DEF Panic, TypeOK, Places, Spinning, Locked, envVars
<1> QED BY <1>1, <1>2, <1>3 DEF EnvDestroy

LEMMA NextType == TypeOK /\ [Next]_vars => TypeOK'
<1> SUFFICES ASSUME TypeOK, [Next]_vars PROVE TypeOK'
  OBVIOUS
<1> USE DEF envVars, Cur
<1>1. CASE UNCHANGED vars
  BY <1>1 DEF vars, TypeOK
<1>2. ASSUME NEW c \in Cpu, NEW e \in Env, SchedRun(c, e) PROVE TypeOK'
  <2>1. Preempted(c) \in [Env -> Status]
    BY <1>2 DEF Preempted, TypeOK, Status
  <2> QED
    BY <1>2, <2>1 DEF SchedRun, EnvRun, TypeOK, Places, Locked, Status
<1>3. ASSUME NEW c \in Cpu, Other(c) PROVE TypeOK'
  <2>1. CASE TrapFromUser(c) \/ TrapFromHalt(c) \/ Acquire(c)
    <3>1. PICK p \in Places : pc' = [pc EXCEPT ![c] = p]
      <4>1. CASE TrapFromUser(c)
        BY <4>1 DEF TrapFromUser, Places, Spinning
      <4>2. CASE TrapFromHalt(c)
        BY <4>2 DEF TrapFromHalt, Places, Spinning
      <4>3. CASE Acquire(c)
        BY <4>3 DEF Acquire, Places, Locked
      <4> QED BY <2>1, <4>1, <4>2, <4>3
    <3>2. pc' \in [Cpu -> Places]
      BY <3>1 DEF TypeOK
    <3>3. lock' \in {lock, c}
      BY <2>1 DEF TrapFromUser, TrapFromHalt, Acquire
    <3>4. UNCHANGED <<curenv, envVars, cpunum>>
      BY <2>1 DEF TrapFromUser, TrapFromHalt, Acquire
    <3> QED BY <3>2, <3>3, <3>4 DEF TypeOK
  <2>2. CASE Leave(c)
    BY <2>2 DEF Leave, TypeOK, Places
  <2>3. CASE SchedIdle(c)
    BY <2>3 DEF SchedIdle, SchedHalt, TypeOK, Places, Locked
  <2>4. CASE Stopped(c)
    BY <2>4 DEF Stopped, vars, TypeOK
  <2>5. CASE Zombie(c)
    <3>1. Cur(c) \in Env /\ EnvFree(Cur(c))
      BY <2>5 DEF Zombie, TypeOK
    <3>2. freeList' \in Seq(Env)
      BY <3>1 DEF EnvFree, TypeOK
    <3> QED BY <2>5, <3>1, <3>2 DEF Zombie, GoSched, EnvFree, TypeOK, Places, Locked, Status
  <2>6. CASE Timer(c) \/ SysYield(c)
    BY <2>6 DEF Timer, SysYield, GoSched, TypeOK, Places, Locked
  <2>7. CASE Harmless(c)
    BY <2>7, ReturnType DEF Harmless, TypeOK
  <2>8. CASE Fault(c)
    BY <2>8, EnvDestroyType DEF Fault, Dispatching, TypeOK
  <2>9. CASE SysExofork(c)
    <3>1. Head(freeList) \in Env /\ Tail(freeList) \in Seq(Env)
      BY <2>9, HeadTailProperties DEF SysExofork, TypeOK
    <3>2. Cur(c) \in Env /\ IdOf(Cur(c)) \in EnvId
      BY <2>9 DEF SysExofork, Dispatching, IdOf, EnvId, TypeOK
    <3>3. gen' \in [Env -> 0 .. MaxGen]
      BY <2>9, <3>1, SizeAssumption DEF SysExofork, EnvAlloc, TypeOK
    <3> QED
      BY <2>9, <3>1, <3>2, <3>3, ReturnType DEF SysExofork, EnvAlloc, TypeOK, Status
  <2>10. CASE SysIpcRecv(c)
    BY <2>10 DEF SysIpcRecv, Dispatching, GoSched, TypeOK, Places, Locked, Status
  <2>11. CASE SysIpcRecvBad(c)
    BY <2>11, ReturnType DEF SysIpcRecvBad, TypeOK
  <2>12. ASSUME NEW e \in Env, SysEnvDestroy(c, e) PROVE TypeOK'
    BY <2>12, EnvDestroyType DEF SysEnvDestroy
  <2>13. ASSUME NEW e \in Env, SysIpcTrySend(c, e) PROVE TypeOK'
    BY <2>13, ReturnType DEF SysIpcTrySend, TypeOK, Status
  <2>14. ASSUME NEW e \in Env, NEW st \in {"RUNNABLE", "NOT_RUNNABLE"},
                SysEnvSetStatus(c, e, st)
         PROVE  TypeOK'
    BY <2>14, ReturnType DEF SysEnvSetStatus, TypeOK, Status
  <2>15. CASE Breakpoint(c) \/ Overflow(c)
    BY <2>15 DEF Breakpoint, Overflow, Panic, TypeOK, Places, Locked
  <2> QED
    BY <1>3, <2>1, <2>2, <2>3, <2>4, <2>5, <2>6, <2>7, <2>8, <2>9, <2>10,
       <2>11, <2>12, <2>13, <2>14, <2>15 DEF Other
<1> QED BY <1>1, <1>2, <1>3 DEF Next

\* Type correctness, whatever the programs do.
THEOREM TypeCorrect == Spec => []TypeOK
<1>1. Init => TypeOK
  BY InitType
<1>2. TypeOK /\ [Next]_vars => TypeOK'
  BY NextType
<1> QED BY <1>1, <1>2, PTL DEF Spec

-----------------------------------------------------------------------------
(* The lock.  Every way out of a handler either keeps it, with pc in       *)
(* Locked, or gives it up, with pc outside.                                *)

\* What a step of processor c does to lock and pc, whatever else it does.
LockMove(c) ==
  /\ pc' = [pc EXCEPT ![c] = pc'[c]]
  /\ \/ pc[c] \in Locked /\ pc'[c] \in Locked /\ lock' = lock
     \/ pc[c] \in Locked /\ pc'[c] \notin Locked /\ lock' = NoCpu
     \/ pc[c] \notin Locked /\ pc'[c] \notin Locked /\ lock' = lock
     \/ pc[c] \notin Locked /\ pc'[c] \in Locked /\ lock = NoCpu /\ lock' = c

LEMMA HandlerMoves ==
  ASSUME TypeOK, NEW c \in Cpu, pc[c] = "trap",
         Return(c) \/ GoSched(c) \/ Panic(c)
  PROVE  LockMove(c)
BY DEF LockMove, TypeOK, Return, GoSched, Panic, Locked

LEMMA StepMoves ==
  ASSUME TypeOK, NEW c \in Cpu, Other(c) \/ \E e \in Env : SchedRun(c, e)
  PROVE  LockMove(c)
<1>1. CASE \E e \in Env : SchedRun(c, e)
  BY <1>1 DEF SchedRun, EnvRun, LockMove, TypeOK, Locked
<1>2. CASE TrapFromUser(c) \/ TrapFromHalt(c) \/ Leave(c)
  BY <1>2 DEF TrapFromUser, TrapFromHalt, Leave, LockMove, TypeOK, Locked
<1>3. CASE Acquire(c)
  BY <1>3 DEF Acquire, LockMove, TypeOK, Locked, Spinning
<1>4. CASE SchedIdle(c)
  BY <1>4 DEF SchedIdle, SchedHalt, LockMove, TypeOK, Locked
<1>5. CASE Stopped(c)
  BY <1>5 DEF Stopped, vars, LockMove, TypeOK, Locked
<1>6. CASE Zombie(c) \/ Timer(c) \/ SysYield(c) \/ SysIpcRecv(c)
  BY <1>6, HandlerMoves DEF Zombie, Timer, SysYield, SysIpcRecv, Dispatching
<1>7. CASE Harmless(c) \/ SysExofork(c) \/ SysIpcRecvBad(c)
  BY <1>7, HandlerMoves DEF Harmless, SysExofork, SysIpcRecvBad, Dispatching
<1>8. CASE Fault(c)
  BY <1>8, HandlerMoves DEF Fault, Dispatching, EnvDestroy
<1>9. CASE \E e \in Env : SysEnvDestroy(c, e)
  BY <1>9, HandlerMoves DEF SysEnvDestroy, Dispatching, EnvDestroy
<1>10. CASE \E e \in Env : SysIpcTrySend(c, e)
  BY <1>10, HandlerMoves DEF SysIpcTrySend, Dispatching
<1>11. CASE \E e \in Env, st \in {"RUNNABLE", "NOT_RUNNABLE"} :
              SysEnvSetStatus(c, e, st)
  BY <1>11, HandlerMoves DEF SysEnvSetStatus, Dispatching
<1>12. CASE Breakpoint(c) \/ Overflow(c)
  BY <1>12 DEF Breakpoint, Overflow, Dispatching, Panic, LockMove, TypeOK, Locked
<1> QED BY <1>1, <1>2, <1>3, <1>4, <1>5, <1>6, <1>7, <1>8, <1>9, <1>10, <1>11, <1>12
        DEF Other

LEMMA LockStep == TypeOK /\ LockDiscipline /\ [Next]_vars => LockDiscipline'
<1> SUFFICES ASSUME TypeOK, LockDiscipline, [Next]_vars PROVE LockDiscipline'
  OBVIOUS
<1>1. CASE UNCHANGED vars
  BY <1>1 DEF vars, LockDiscipline
<1>2. ASSUME NEW c \in Cpu, LockMove(c) PROVE LockDiscipline'
  BY <1>2, CpuAssumption DEF LockMove, LockDiscipline, TypeOK
<1> QED BY <1>1, <1>2, StepMoves DEF Next

\* The big kernel lock is held by exactly the processor inside the kernel, for
\* any number of processors and whatever system calls the programs make.
THEOREM LockCorrect == Spec => []LockDiscipline
<1>1. Init => LockDiscipline
  BY CpuAssumption DEF Init, LockDiscipline, Locked
<1>2. TypeOK /\ LockDiscipline /\ [Next]_vars => LockDiscipline'
  BY LockStep
<1> QED BY <1>1, <1>2, TypeCorrect, PTL DEF Spec

-----------------------------------------------------------------------------
(* Who has which environment, for programs that call the kernel as lib/    *)
(* and user/ do.                                                           *)

\* OwnInv without the lock and the free list.
Core == /\ NoPanic /\ CurenvByPlace /\ CurenvOnCpu /\ OneCpu
        /\ RunningHasCpu /\ RecvingBlocked /\ CpunumRight

LEMMA FreeListPop ==
  ASSUME TypeOK, FreeListExact, freeList # <<>>, NEW p, NEW st \in Status,
         st # "FREE", EnvAlloc(Head(freeList), p, st)
  PROVE  /\ FreeListExact'
         /\ Head(freeList) \in Env /\ status[Head(freeList)] = "FREE"
<1> DEFINE h == Head(freeList)
<1>1. /\ freeList \in Seq(Env) /\ Len(freeList) \in Nat \ {0}
      /\ DOMAIN freeList = 1 .. Len(freeList)
      /\ h = freeList[1] /\ h \in Env
      /\ Len(Tail(freeList)) = Len(freeList) - 1
      /\ DOMAIN Tail(freeList) = 1 .. Len(freeList) - 1
      /\ \A i \in 1 .. Len(freeList) - 1 : Tail(freeList)[i] = freeList[i + 1]
  BY HeadTailProperties, EmptySeq DEF TypeOK
<1>2. status[h] = "FREE"
  BY <1>1 DEF FreeListExact
<1>3. \A i, j \in DOMAIN freeList' : i # j => freeList'[i] # freeList'[j]
  BY <1>1 DEF FreeListExact, EnvAlloc
<1>4. \A e \in Env \ {h} :
        (\E i \in DOMAIN freeList : freeList[i] = e)
          <=> (\E i \in DOMAIN freeList' : freeList'[i] = e)
  <2>1. ASSUME NEW e \in Env \ {h}, NEW i \in DOMAIN freeList, freeList[i] = e
        PROVE  i - 1 \in DOMAIN freeList' /\ freeList'[i - 1] = e
    BY <2>1, <1>1 DEF EnvAlloc
  <2>2. ASSUME NEW i \in DOMAIN freeList'
        PROVE  i + 1 \in DOMAIN freeList /\ freeList[i + 1] = freeList'[i]
    BY <1>1 DEF EnvAlloc
  <2> QED BY <2>1, <2>2
<1>5. \A i \in DOMAIN freeList' : freeList'[i] # h
  BY <1>1 DEF FreeListExact, EnvAlloc
<1>6. /\ status'[h] = st /\ pgdir'[h]
      /\ \A e \in Env \ {h} : status'[e] = status[e] /\ pgdir'[e] = pgdir[e]
  BY <1>1 DEF EnvAlloc, TypeOK
<1> QED BY <1>1, <1>2, <1>3, <1>4, <1>5, <1>6 DEF FreeListExact

LEMMA FreeListPush ==
  ASSUME TypeOK, FreeListExact, NEW e \in Env, status[e] # "FREE", EnvFree(e)
  PROVE  FreeListExact'
<1>1. /\ Len(freeList) \in Nat /\ DOMAIN freeList = 1 .. Len(freeList)
      /\ DOMAIN freeList' = 1 .. Len(freeList) + 1
      /\ freeList'[1] = e
      /\ \A i \in 2 .. Len(freeList) + 1 : freeList'[i] = freeList[i - 1]
  BY DEF EnvFree, TypeOK
<1>2. \A i \in DOMAIN freeList : freeList[i] # e
  BY DEF FreeListExact
<1>3. \A i, j \in DOMAIN freeList' : i # j => freeList'[i] # freeList'[j]
  <2>1. \A i \in DOMAIN freeList' \ {1} :
          i - 1 \in DOMAIN freeList /\ freeList'[i] = freeList[i - 1]
    BY <1>1
  <2>2. \A i, j \in DOMAIN freeList' \ {1} : i # j => i - 1 # j - 1
    BY <1>1
  <2> QED BY <1>1, <1>2, <2>1, <2>2 DEF FreeListExact
<1>4. \A f \in Env \ {e} :
        (\E i \in DOMAIN freeList : freeList[i] = f)
          <=> (\E i \in DOMAIN freeList' : freeList'[i] = f)
  <2>1. ASSUME NEW i \in DOMAIN freeList
        PROVE  i + 1 \in DOMAIN freeList' /\ freeList'[i + 1] = freeList[i]
    BY <1>1
  <2>2. ASSUME NEW f \in Env \ {e}, NEW i \in DOMAIN freeList', freeList'[i] = f
        PROVE  i - 1 \in DOMAIN freeList /\ freeList[i - 1] = f
    BY <2>2, <1>1
  <2> QED BY <2>1, <2>2
<1>5. /\ status'[e] = "FREE" /\ ~pgdir'[e] /\ 1 \in DOMAIN freeList'
      /\ \A f \in Env \ {e} : status'[f] = status[f] /\ pgdir'[f] = pgdir[f]
  BY <1>1 DEF EnvFree, TypeOK
<1> QED BY <1>1, <1>3, <1>4, <1>5 DEF FreeListExact

\* While c is inside the kernel, every other processor is outside.
LEMMA Alone ==
  ASSUME LockDiscipline, NEW c \in Cpu, pc[c] \in Locked, NEW d \in Cpu, d # c
  PROVE  pc[d] \notin Locked
BY DEF LockDiscipline

\* Steps outside the kernel and on its border.
LEMMA BorderCore ==
  ASSUME TypeOK, LockDiscipline, Core, NEW c \in Cpu,
         TrapFromUser(c) \/ TrapFromHalt(c) \/ Acquire(c) \/ Leave(c) \/ Stopped(c)
  PROVE  Core'
<1> USE DEF Core, Cur, envVars, InUser, NoPanic, CurenvByPlace, CurenvOnCpu,
            OneCpu, RunningHasCpu, RecvingBlocked, CpunumRight, TypeOK
<1>1. CASE TrapFromUser(c)
  BY <1>1 DEF TrapFromUser
<1>2. CASE TrapFromHalt(c)
  BY <1>2 DEF TrapFromHalt
<1>3. CASE Acquire(c)
  BY <1>3 DEF Acquire, Spinning
<1>4. CASE Leave(c)
  BY <1>4, EnvFacts DEF Leave
<1>5. CASE Stopped(c)
  BY <1>5 DEF Stopped, vars
<1> QED BY <1>1, <1>2, <1>3, <1>4, <1>5

\* What Core says of one processor.
CoreOf(c) ==
  /\ pc[c] # "panic"
  /\ pc[c] \in {"boot", "halted", "wake"} => Cur(c) = NoEnv
  /\ pc[c] = "trap" => Cur(c) = NoEnv \/ status[Cur(c)] \in {"RUNNING", "DYING"}
  /\ pc[c] = "sched" => Cur(c) = NoEnv \/ status[Cur(c)] \in {"RUNNING", "NOT_RUNNABLE"}
  /\ pc[c] = "debug" => Cur(c) # NoEnv /\ status[Cur(c)] = "RUNNING"
  /\ pc[c] = "monitor" => \A e \in Env : status[e] \in {"FREE", "NOT_RUNNABLE"}
  /\ pc[c] \in InUser =>
       Cur(c) # NoEnv /\ status[Cur(c)] \in {"RUNNING", "DYING"}

LEMMA CoreByCpu ==
  Core <=> /\ \A c \in Cpu : CoreOf(c)
           /\ OneCpu /\ RunningHasCpu /\ RecvingBlocked /\ CpunumRight
BY DEF Core, CoreOf, NoPanic, CurenvByPlace, CurenvOnCpu

\* A processor inside the kernel keeps Core if it keeps off the environments
\* of the other processors and leaves its own in order.
LEMMA HandlerCore ==
  ASSUME TypeOK, TypeOK', LockDiscipline, Core, NEW c \in Cpu, pc[c] \in Locked,
         pc' = [pc EXCEPT ![c] = pc'[c]], pc'[c] \notin {"user", "entry"},
         curenv' = [curenv EXCEPT ![c] = curenv'[c]], cpunum' = cpunum,
         CoreOf(c)',
         \A d \in Cpu \ {c} : Cur(d) # NoEnv =>
            /\ Cur(d) # curenv'[c]
            /\ status'[Cur(d)] \in {"RUNNING", "DYING"},
         RunningHasCpu', RecvingBlocked'
  PROVE  Core'
<1>1. \A d \in Cpu \ {c} : /\ pc'[d] = pc[d] /\ curenv'[d] = curenv[d]
                           /\ pc[d] \notin Locked
  BY Alone DEF TypeOK
<1>2. ASSUME NEW d \in Cpu \ {c} PROVE CoreOf(d)'
  <2>1. CoreOf(d)
    BY CoreByCpu
  <2> QED BY <1>1, <2>1 DEF CoreOf, Cur, Locked, InUser
<1>3. OneCpu'
  <2> SUFFICES ASSUME NEW a \in Cpu, NEW b \in Cpu, a # b, Cur(a)' # NoEnv
               PROVE  Cur(a)' # Cur(b)'
    BY DEF OneCpu
  <2>1. CASE a = c
    BY <2>1, <1>1 DEF Cur
  <2>2. CASE b = c
    BY <2>2, <1>1 DEF Cur
  <2>3. CASE a # c /\ b # c
    BY <2>3, <1>1, CoreByCpu DEF OneCpu, Cur
  <2> QED BY <2>1, <2>2, <2>3
<1>4. CpunumRight'
  <2>1. CpunumRight
    BY CoreByCpu
  <2> QED BY <1>1, <2>1 DEF CpunumRight, Cur
<1>5. \A d \in Cpu : CoreOf(d)'
  BY <1>2
<1> QED BY <1>3, <1>4, <1>5 DEF Core, CoreOf, NoPanic, CurenvByPlace, CurenvOnCpu

\* The environments of the processors outside the kernel.
LEMMA OthersRun ==
  ASSUME TypeOK, LockDiscipline, Core, NEW c \in Cpu, pc[c] \in Locked,
         NEW d \in Cpu, d # c, Cur(d) # NoEnv
  PROVE  status[Cur(d)] \in {"RUNNING", "DYING"} /\ Cur(d) # Cur(c)
<1>1. pc[d] \notin Locked
  BY Alone
<1>2. pc[d] \in Places
  BY DEF TypeOK
<1> QED BY <1>1, <1>2, CoreByCpu DEF CoreOf, OneCpu, InUser, Places, Spinning, Locked

\* The scheduler takes nobody's environment.
LEMMA SchedRunCore ==
  ASSUME TypeOK, TypeOK', LockDiscipline, FreeListExact, Core,
         NEW c \in Cpu, NEW e \in Env, SchedRun(c, e)
  PROVE  Core'
<1>1. pc[c] = "sched" /\ pc[c] \in Locked
  BY DEF SchedRun, Locked
<1>2. e = Cur(c) \/ status[e] = "RUNNABLE"
  BY DEF SchedRun, Eligible, Runnable
<1>3. status[e] \in {"RUNNABLE", "RUNNING"} /\ pgdir[e]
  BY DEF SchedRun, Eligible, Runnable, FreeListExact
<1>4. /\ curenv' = [curenv EXCEPT ![c] = e] /\ curenv'[c] = e
      /\ pc' = [pc EXCEPT ![c] = "leave"] /\ pc'[c] = "leave"
      /\ UNCHANGED <<recving, cpunum>>
      /\ status'[e] = "RUNNING"
      /\ \A f \in Env \ {e, Cur(c)} : status'[f] = status[f]
      /\ Cur(c) # NoEnv /\ Cur(c) # e => status'[Cur(c)] \in {"RUNNABLE", "NOT_RUNNABLE"}
  <2>1. /\ curenv' = [curenv EXCEPT ![c] = e] /\ curenv'[c] = e
        /\ pc' = [pc EXCEPT ![c] = "leave"] /\ pc'[c] = "leave"
        /\ UNCHANGED <<recving, cpunum>>
    BY <1>3 DEF SchedRun, EnvRun, TypeOK
  <2>2. Preempted(c) \in [Env -> Status]
    BY DEF Preempted, TypeOK, Status
  <2>3. status' = [Preempted(c) EXCEPT ![e] = "RUNNING"]
    BY DEF SchedRun, EnvRun
  <2>4. \A f \in Env \ {Cur(c)} : Preempted(c)[f] = status[f]
    BY DEF Preempted, TypeOK
  <2>5. Cur(c) # NoEnv => Preempted(c)[Cur(c)] \in {"RUNNABLE", "NOT_RUNNABLE"}
    <3>1. Cur(c) # NoEnv => Cur(c) \in Env /\ status[Cur(c)] \in {"RUNNING", "NOT_RUNNABLE"}
      BY <1>1, CoreByCpu DEF CoreOf, TypeOK, Cur
    <3> QED BY <3>1 DEF Preempted, TypeOK
  <2>6. Cur(c) # NoEnv => Cur(c) \in Env
    BY DEF TypeOK, Cur
  <2> QED BY <2>1, <2>2, <2>3, <2>4, <2>5, <2>6
<1>5. \A d \in Cpu \ {c} : Cur(d) # NoEnv =>
        /\ Cur(d) \in Env \ {e, Cur(c)}
        /\ status'[Cur(d)] \in {"RUNNING", "DYING"}
  <2> SUFFICES ASSUME NEW d \in Cpu \ {c}, Cur(d) # NoEnv
               PROVE  /\ Cur(d) \in Env \ {e, Cur(c)}
                      /\ status'[Cur(d)] \in {"RUNNING", "DYING"}
    OBVIOUS
  <2>1. Cur(d) \in Env
    BY DEF TypeOK, Cur
  <2>2. status[Cur(d)] \in {"RUNNING", "DYING"} /\ Cur(d) # Cur(c)
    BY <1>1, OthersRun
  <2>3. Cur(d) # e
    BY <1>2, <2>2
  <2> QED BY <1>4, <2>1, <2>2, <2>3
<1>6. CoreOf(c)'
  BY <1>4, EnvFacts DEF CoreOf, Cur, InUser
<1>7. RunningHasCpu'
  <2> SUFFICES ASSUME NEW f \in Env, status'[f] \in {"RUNNING", "DYING"}
               PROVE  \E d \in Cpu : Cur(d)' = f
    BY DEF RunningHasCpu
  <2>1. CASE f = e
    BY <2>1, <1>4 DEF Cur
  <2>2. CASE f # e
    <3>1. f # Cur(c)
      BY <1>4, <2>2, EnvFacts
    <3>2. status[f] \in {"RUNNING", "DYING"}
      BY <1>4, <2>2, <3>1
    <3>3. PICK d \in Cpu : Cur(d) = f
      BY <3>2, CoreByCpu DEF RunningHasCpu
    <3> QED BY <1>4, <3>1, <3>3 DEF Cur, TypeOK
  <2> QED BY <2>1, <2>2
<1>8. RecvingBlocked'
  <2>1. \A f \in Env : recving[f] => status[f] \in {"NOT_RUNNABLE", "FREE"}
    BY CoreByCpu DEF RecvingBlocked
  <2>2. Cur(c) # NoEnv /\ Cur(c) # e /\ recving[Cur(c)] =>
          status'[Cur(c)] \in {"NOT_RUNNABLE", "FREE"}
    <3>1. Cur(c) # NoEnv /\ recving[Cur(c)] => status[Cur(c)] = "NOT_RUNNABLE"
      BY <1>1, <2>1, CoreByCpu DEF CoreOf, TypeOK, Cur
    <3>2. Cur(c) # NoEnv /\ status[Cur(c)] = "NOT_RUNNABLE" /\ Cur(c) # e =>
            status'[Cur(c)] = "NOT_RUNNABLE"
      BY DEF SchedRun, EnvRun, Preempted, TypeOK
    <3> QED BY <3>1, <3>2
  <2> QED BY <1>3, <1>4, <2>1, <2>2, EnvFacts DEF RecvingBlocked
<1> QED BY <1>1, <1>4, <1>5, <1>6, <1>7, <1>8, HandlerCore

LEMMA SchedIdleCore ==
  ASSUME TypeOK, TypeOK', LockDiscipline, Core, NEW c \in Cpu, SchedIdle(c)
  PROVE  Core'
<1>1. pc[c] = "sched" /\ pc[c] \in Locked
  BY DEF SchedIdle, Locked
<1>2. UNCHANGED <<status, recving, cpunum>>
  BY DEF SchedIdle, SchedHalt, envVars
<1>3. \A e \in Env : status[e] # "RUNNABLE"
  BY DEF SchedIdle, Eligible, Runnable
<1>4. Cur(c) # NoEnv => status[Cur(c)] = "NOT_RUNNABLE"
  BY <1>1, CoreByCpu DEF CoreOf, SchedIdle, Eligible, Runnable
<1>5. \A d \in Cpu \ {c} : Cur(d) # NoEnv =>
        Cur(d) # Cur(c) /\ status'[Cur(d)] \in {"RUNNING", "DYING"}
  BY <1>1, <1>2, OthersRun
<1>6. RecvingBlocked'
  BY <1>2, CoreByCpu DEF RecvingBlocked
<1>7. CASE /\ curenv' = [curenv EXCEPT ![c] = NoEnv]
           /\ pc' = [pc EXCEPT ![c] = "halted"]
  <2>1. curenv'[c] = NoEnv /\ pc'[c] = "halted"
    BY <1>7 DEF TypeOK
  <2>2. CoreOf(c)'
    BY <2>1 DEF CoreOf, Cur, InUser
  <2>3. RunningHasCpu'
    BY <1>2, <1>4, <1>7, CoreByCpu DEF RunningHasCpu, Cur, TypeOK
  <2> QED BY <1>1, <1>2, <1>5, <1>6, <1>7, <2>1, <2>2, <2>3, HandlerCore
<1>8. CASE /\ \A e \in Env : status[e] \notin {"RUNNABLE", "RUNNING", "DYING"}
           /\ pc' = [pc EXCEPT ![c] = "monitor"]
           /\ UNCHANGED curenv
  <2>1. curenv' = [curenv EXCEPT ![c] = curenv'[c]] /\ pc'[c] = "monitor"
    BY <1>8 DEF TypeOK
  <2>2. CoreOf(c)'
    BY <1>2, <1>8, <2>1 DEF CoreOf, InUser, TypeOK, Status
  <2>3. RunningHasCpu'
    BY <1>2, <1>8 DEF RunningHasCpu
  <2> QED BY <1>1, <1>2, <1>5, <1>6, <1>8, <2>1, <2>2, <2>3, HandlerCore DEF Cur
<1> QED BY <1>7, <1>8 DEF SchedIdle, SchedHalt

\* A handler that ends in Return or GoSched keeps Core if it puts nothing on a
\* processor and takes nothing off one, but perhaps its own environment.
LEMMA TrapCore ==
  ASSUME TypeOK, TypeOK', LockDiscipline, Core, NEW c \in Cpu, pc[c] = "trap",
         Return(c) \/ GoSched(c),
         curenv' = [curenv EXCEPT ![c] = curenv'[c]],
         curenv'[c] \in {Cur(c), NoEnv},
         curenv'[c] # NoEnv => status'[curenv'[c]] \in {"RUNNING", "NOT_RUNNABLE"},
         \A f \in Env : status'[f] \in {"RUNNING", "DYING"} =>
            status[f] \in {"RUNNING", "DYING"} /\ (f = Cur(c) => curenv'[c] = f),
         \A f \in Env : status[f] \in {"RUNNING", "DYING"} /\ f # Cur(c) =>
            status'[f] \in {"RUNNING", "DYING"},
         RecvingBlocked'
  PROVE  Core'
<1>1. pc[c] \in Locked
  BY DEF Locked
<1>2. /\ pc' = [pc EXCEPT ![c] = pc'[c]] /\ pc'[c] \in {"leave", "sched"}
      /\ pc'[c] = "leave" => /\ curenv'[c] # NoEnv
                             /\ status'[curenv'[c]] = "RUNNING"
      /\ cpunum' = cpunum
  BY DEF Return, GoSched, TypeOK
<1>3. CoreOf(c)'
  BY <1>2 DEF CoreOf, Cur, InUser
<1>4. \A d \in Cpu \ {c} : Cur(d) # NoEnv =>
        /\ Cur(d) # curenv'[c]
        /\ status'[Cur(d)] \in {"RUNNING", "DYING"}
  <2> SUFFICES ASSUME NEW d \in Cpu \ {c}, Cur(d) # NoEnv
               PROVE  /\ Cur(d) # curenv'[c]
                      /\ status'[Cur(d)] \in {"RUNNING", "DYING"}
    OBVIOUS
  <2>1. Cur(d) \in Env
    BY DEF TypeOK, Cur
  <2>2. status[Cur(d)] \in {"RUNNING", "DYING"} /\ Cur(d) # Cur(c)
    BY <1>1, OthersRun
  <2> QED BY <2>1, <2>2
<1>5. RunningHasCpu'
  <2> SUFFICES ASSUME NEW f \in Env, status'[f] \in {"RUNNING", "DYING"}
               PROVE  \E d \in Cpu : Cur(d)' = f
    BY DEF RunningHasCpu
  <2>1. PICK d \in Cpu : Cur(d) = f
    BY CoreByCpu DEF RunningHasCpu
  <2> QED BY <2>1 DEF Cur, TypeOK
<1> QED BY <1>1, <1>2, <1>3, <1>4, <1>5, HandlerCore

\* In a handler the interrupted environment is RUNNING.
LEMMA TrapRuns ==
  ASSUME TypeOK, Core, NEW c \in Cpu, Dispatching(c)
  PROVE  /\ pc[c] = "trap" /\ Cur(c) \in Env /\ Cur(c) = curenv[c]
         /\ status[Cur(c)] = "RUNNING" /\ ~recving[Cur(c)]
         /\ \A e \in Env : recving[e] => status[e] \in {"NOT_RUNNABLE", "FREE"}
BY CoreByCpu DEF Dispatching, CoreOf, TypeOK, Cur, RecvingBlocked

LEMMA PlainCore ==
  ASSUME TypeOK, TypeOK', LockDiscipline, Core, NEW c \in Cpu,
         Timer(c) \/ SysYield(c) \/ Harmless(c)
  PROVE  Core'
<1>1. /\ pc[c] = "trap" /\ UNCHANGED <<curenv, status, recving>>
      /\ Cur(c) = NoEnv \/ Dispatching(c)
      /\ Return(c) \/ GoSched(c)
  BY DEF Timer, SysYield, Harmless, Dispatching, envVars
<1>2. Cur(c) # NoEnv => status[Cur(c)] = "RUNNING"
  BY <1>1, TrapRuns
<1>3. curenv' = [curenv EXCEPT ![c] = curenv'[c]] /\ curenv'[c] = Cur(c)
  BY <1>1 DEF TypeOK, Cur
<1>4. RecvingBlocked'
  BY <1>1, CoreByCpu DEF RecvingBlocked
<1> QED BY <1>1, <1>2, <1>3, <1>4, TrapCore

LEMMA BreakpointCore ==
  ASSUME TypeOK, TypeOK', LockDiscipline, Core, NEW c \in Cpu, Breakpoint(c)
  PROVE  Core'
<1>1. /\ Dispatching(c) /\ pc' = [pc EXCEPT ![c] = "debug"]
      /\ UNCHANGED <<curenv, status, recving, cpunum>>
  BY DEF Breakpoint, envVars
<1>2. /\ pc[c] \in Locked /\ pc'[c] = "debug"
      /\ curenv' = [curenv EXCEPT ![c] = curenv'[c]] /\ Cur(c)' = Cur(c)
  BY <1>1 DEF Dispatching, Locked, TypeOK, Cur
<1>3. CoreOf(c)'
  BY <1>1, <1>2, TrapRuns, EnvFacts DEF CoreOf, InUser
<1>4. \A d \in Cpu \ {c} : Cur(d) # NoEnv =>
        Cur(d) # curenv'[c] /\ status'[Cur(d)] \in {"RUNNING", "DYING"}
  BY <1>1, <1>2, OthersRun DEF Cur
<1>5. RunningHasCpu' /\ RecvingBlocked'
  BY <1>1, CoreByCpu DEF RunningHasCpu, RecvingBlocked, Cur
<1> QED BY <1>1, <1>2, <1>3, <1>4, <1>5, HandlerCore

LEMMA ExoforkCore ==
  ASSUME TypeOK, TypeOK', LockDiscipline, FreeListExact, Core, NEW c \in Cpu,
         SysExofork(c)
  PROVE  Core' /\ FreeListExact'
<1> DEFINE h == Head(freeList)
<1>1. /\ h \in Env /\ status[h] = "FREE" /\ FreeListExact'
  BY FreeListPop DEF SysExofork, Status
<1>2. Dispatching(c) /\ Return(c) /\ curenv' = curenv
  BY DEF SysExofork
<1>3. /\ status' = [status EXCEPT ![h] = "NOT_RUNNABLE"]
      /\ recving' = [recving EXCEPT ![h] = FALSE]
  BY DEF SysExofork, EnvAlloc
<1>4. /\ curenv' = [curenv EXCEPT ![c] = curenv'[c]] /\ curenv'[c] = Cur(c)
      /\ Cur(c) # h
  BY <1>1, <1>2, TrapRuns DEF TypeOK, Cur
<1>5. \A f \in Env \ {h} : status'[f] = status[f] /\ recving'[f] = recving[f]
  BY <1>3 DEF TypeOK
<1>6. status'[h] = "NOT_RUNNABLE" /\ ~recving'[h]
  BY <1>1, <1>3 DEF TypeOK
<1>7. RecvingBlocked'
  BY <1>2, <1>5, <1>6, TrapRuns DEF RecvingBlocked
<1> QED BY <1>1, <1>2, <1>4, <1>5, <1>6, <1>7, TrapRuns, TrapCore

\* Starting a child and waking a receiver: e is blocked and becomes RUNNABLE.
LEMMA WakeCore ==
  ASSUME TypeOK, TypeOK', LockDiscipline, Core, NEW c \in Cpu, Dispatching(c),
         NEW e \in Env, status[e] = "NOT_RUNNABLE", Return(c), curenv' = curenv,
         status' = [status EXCEPT ![e] = "RUNNABLE"],
         \A f \in Env : recving'[f] => recving[f] /\ f # e
  PROVE  Core'
<1>1. status'[e] = "RUNNABLE" /\ \A f \in Env \ {e} : status'[f] = status[f]
  BY DEF TypeOK
<1>2. curenv' = [curenv EXCEPT ![c] = curenv'[c]] /\ curenv'[c] = Cur(c) /\ Cur(c) # e
  BY TrapRuns DEF TypeOK, Cur
<1>3. RecvingBlocked'
  BY <1>1, TrapRuns DEF RecvingBlocked
<1> QED BY <1>1, <1>2, <1>3, TrapRuns, TrapCore

LEMMA IpcRecvCore ==
  ASSUME TypeOK, TypeOK', LockDiscipline, Core, NEW c \in Cpu, SysIpcRecv(c)
  PROVE  Core'
<1>1. /\ Dispatching(c) /\ GoSched(c) /\ curenv' = curenv
      /\ status' = [status EXCEPT ![Cur(c)] = "NOT_RUNNABLE"]
      /\ recving' = [recving EXCEPT ![Cur(c)] = TRUE]
  BY DEF SysIpcRecv
<1>2. /\ curenv' = [curenv EXCEPT ![c] = curenv'[c]] /\ curenv'[c] = Cur(c)
      /\ Cur(c) \in Env /\ status'[Cur(c)] = "NOT_RUNNABLE"
  BY <1>1, TrapRuns DEF TypeOK, Cur
<1>3. \A f \in Env \ {Cur(c)} : status'[f] = status[f] /\ recving'[f] = recving[f]
  BY <1>1 DEF TypeOK
<1>4. RecvingBlocked'
  BY <1>1, <1>2, <1>3, TrapRuns DEF RecvingBlocked
<1> QED BY <1>1, <1>2, <1>3, <1>4, TrapRuns, TrapCore

LEMMA IpcSendCore ==
  ASSUME TypeOK, TypeOK', LockDiscipline, Core, NEW c \in Cpu, NEW e \in Env,
         SysIpcTrySend(c, e)
  PROVE  Core'
<1>1. Dispatching(c) /\ Return(c) /\ curenv' = curenv
  BY DEF SysIpcTrySend
<1>2. status[e] = "NOT_RUNNABLE"
  BY TrapRuns DEF SysIpcTrySend, Named
<1>3. status' = [status EXCEPT ![e] = "RUNNABLE"]
  BY DEF SysIpcTrySend
<1>4. \A f \in Env : recving'[f] => recving[f] /\ f # e
  BY DEF SysIpcTrySend, TypeOK
<1> QED BY <1>1, <1>2, <1>3, <1>4, WakeCore

LEMMA SetStatusCore ==
  ASSUME TypeOK, TypeOK', LockDiscipline, Core, LibUsers, NEW c \in Cpu,
         NEW e \in Env, NEW st, SysEnvSetStatus(c, e, st)
  PROVE  Core'
<1>1. /\ Dispatching(c) /\ Return(c) /\ curenv' = curenv /\ recving' = recving
      /\ status[e] = "NOT_RUNNABLE" /\ ~recving[e]
      /\ status' = [status EXCEPT ![e] = "RUNNABLE"]
  BY DEF SysEnvSetStatus
<1> QED BY <1>1, WakeCore

\* Freeing an environment that no other processor has.
LEMMA FreeCore ==
  ASSUME TypeOK, TypeOK', LockDiscipline, Core, NEW c \in Cpu, pc[c] = "trap",
         NEW e \in Env, Return(c) \/ GoSched(c), EnvFree(e),
         curenv' = IF Cur(c) = e THEN [curenv EXCEPT ![c] = NoEnv] ELSE curenv,
         Cur(c) # e => status[e] \notin {"RUNNING", "DYING"},
         Cur(c) # NoEnv /\ Cur(c) # e => status[Cur(c)] = "RUNNING"
  PROVE  Core'
<1>1. /\ status'[e] = "FREE" /\ recving' = recving
      /\ \A f \in Env \ {e} : status'[f] = status[f]
  BY DEF EnvFree, TypeOK
<1>2. /\ curenv' = [curenv EXCEPT ![c] = curenv'[c]]
      /\ curenv'[c] = IF Cur(c) = e THEN NoEnv ELSE Cur(c)
      /\ Cur(c) \in Env \cup {NoEnv}
  BY DEF TypeOK, Cur
<1>3. RecvingBlocked'
  BY <1>1, CoreByCpu DEF RecvingBlocked
<1>4. curenv'[c] # NoEnv => status'[curenv'[c]] \in {"RUNNING", "NOT_RUNNABLE"}
  BY <1>1, <1>2
<1> QED BY <1>1, <1>2, <1>3, <1>4, EnvFacts, TrapCore

LEMMA DestroyCore ==
  ASSUME TypeOK, TypeOK', LockDiscipline, FreeListExact, Core, NEW c \in Cpu,
         Dispatching(c), NEW e \in Env, status[e] \notin {"FREE", "DYING"},
         EnvDestroy(c, e)
  PROVE  Core' /\ FreeListExact'
<1>1. CASE /\ RunsElsewhere(c, e)
           /\ status' = [status EXCEPT ![e] = "DYING"]
           /\ UNCHANGED <<curenv, pgdir, recving, freeList>>
           /\ Return(c)
  <2>1. status'[e] = "DYING" /\ \A f \in Env \ {e} : status'[f] = status[f]
    BY <1>1 DEF TypeOK
  <2>2. /\ curenv' = [curenv EXCEPT ![c] = curenv'[c]] /\ curenv'[c] = Cur(c)
        /\ Cur(c) # e /\ status[e] = "RUNNING"
    BY <1>1 DEF TypeOK, Cur, RunsElsewhere
  <2>3. RecvingBlocked'
    BY <1>1, <2>1, <2>2, TrapRuns DEF RecvingBlocked
  <2>4. Core'
    BY <1>1, <2>1, <2>2, <2>3, TrapRuns, TrapCore
  <2> QED BY <1>1, <2>1, <2>2, <2>4 DEF FreeListExact
<1>2. CASE /\ ~RunsElsewhere(c, e) /\ EnvFree(e) /\ Return(c)
           /\ curenv' = IF Cur(c) = e THEN [curenv EXCEPT ![c] = NoEnv] ELSE curenv
  <2>1. Cur(c) # e => status[e] \notin {"RUNNING", "DYING"}
    BY <1>2 DEF RunsElsewhere
  <2>2. Core'
    BY <1>2, <2>1, TrapRuns, FreeCore
  <2> QED BY <1>2, <2>2, FreeListPush
<1>3. pgdir[e]
  BY DEF FreeListExact
<1> QED BY <1>1, <1>2, <1>3 DEF EnvDestroy

LEMMA ZombieCore ==
  ASSUME TypeOK, TypeOK', LockDiscipline, FreeListExact, Core, NEW c \in Cpu,
         Zombie(c)
  PROVE  Core' /\ FreeListExact'
<1>1. /\ pc[c] = "trap" /\ Cur(c) \in Env /\ status[Cur(c)] = "DYING"
      /\ EnvFree(Cur(c)) /\ GoSched(c)
      /\ curenv' = [curenv EXCEPT ![c] = NoEnv]
  BY DEF Zombie, TypeOK, Cur
<1> QED BY <1>1, FreeCore, FreeListPush

\* The steps that do not touch the free list.
FreeListKept == UNCHANGED <<freeList, pgdir>> /\
                \A e \in Env : status'[e] = "FREE" <=> status[e] = "FREE"

LEMMA KeptExact ==
  ASSUME FreeListExact, FreeListKept PROVE FreeListExact'
BY DEF FreeListExact, FreeListKept

LEMMA OwnStep ==
  ASSUME LibUsers
  PROVE  TypeOK /\ OwnInv /\ [Next]_vars => OwnInv'
<1> SUFFICES ASSUME TypeOK, OwnInv, [Next]_vars PROVE OwnInv'
  OBVIOUS
<1>1. TypeOK' /\ LockDiscipline' /\ LockDiscipline /\ Core /\ FreeListExact
  BY NextType, LockStep DEF OwnInv, Core
<1> SUFFICES Core' /\ FreeListExact'
  BY <1>1 DEF OwnInv, Core
<1>2. CASE UNCHANGED vars
  BY <1>1, <1>2 DEF vars, Core, FreeListExact, Cur, NoPanic, CurenvByPlace,
     CurenvOnCpu, OneCpu, RunningHasCpu, RecvingBlocked, CpunumRight
<1>3. ASSUME NEW c \in Cpu, NEW e \in Env, SchedRun(c, e)
      PROVE  Core' /\ FreeListExact'
  <2>1. FreeListKept
    <3>1. status[e] # "FREE" /\ UNCHANGED <<freeList, pgdir>>
      BY <1>3 DEF SchedRun, EnvRun, Eligible, Runnable
    <3>2. \A f \in Env : Preempted(c)[f] = "FREE" <=> status[f] = "FREE"
      BY DEF Preempted, TypeOK
    <3>3. Preempted(c) \in [Env -> Status]
      BY DEF Preempted, TypeOK, Status
    <3> QED BY <1>3, <3>1, <3>2, <3>3 DEF SchedRun, EnvRun, FreeListKept
  <2> QED BY <1>1, <1>3, <2>1, SchedRunCore, KeptExact
<1>4. ASSUME NEW c \in Cpu, Other(c)
      PROVE  Core' /\ FreeListExact'
  <2>1. CASE TrapFromUser(c) \/ TrapFromHalt(c) \/ Acquire(c) \/ Leave(c) \/ Stopped(c)
    <3>1. FreeListKept
      BY <2>1 DEF TrapFromUser, TrapFromHalt, Acquire, Leave, Stopped,
                  FreeListKept, vars, envVars
    <3> QED BY <1>1, <2>1, <3>1, BorderCore, KeptExact
  <2>2. CASE SchedIdle(c)
    <3>1. FreeListKept
      BY <2>2 DEF SchedIdle, SchedHalt, FreeListKept, envVars
    <3> QED BY <1>1, <2>2, <3>1, SchedIdleCore, KeptExact
  <2>3. CASE Timer(c) \/ SysYield(c) \/ Harmless(c)
    <3>1. FreeListKept
      BY <2>3 DEF Timer, SysYield, Harmless, FreeListKept, envVars
    <3> QED BY <1>1, <2>3, <3>1, PlainCore, KeptExact
  <2>4. CASE Zombie(c)
    BY <1>1, <2>4, ZombieCore
  <2>5. CASE Fault(c)
    <3>1. Dispatching(c) /\ Cur(c) \in Env /\ status[Cur(c)] = "RUNNING"
      BY <1>1, <2>5, TrapRuns DEF Fault
    <3> QED BY <1>1, <2>5, <3>1, DestroyCore DEF Fault
  <2>6. CASE SysExofork(c)
    BY <1>1, <2>6, ExoforkCore
  <2>7. CASE SysIpcRecv(c)
    <3>1. FreeListKept
      BY <1>1, <2>7, TrapRuns DEF SysIpcRecv, FreeListKept, TypeOK
    <3> QED BY <1>1, <2>7, <3>1, IpcRecvCore, KeptExact
  <2>8. CASE SysIpcRecvBad(c)
    BY <2>8 DEF SysIpcRecvBad
  <2>9. ASSUME NEW e \in Env, SysEnvDestroy(c, e)
        PROVE  Core' /\ FreeListExact'
    <3>1. Dispatching(c) /\ status[e] \notin {"FREE", "DYING"}
      BY <1>1, <2>9, TrapRuns DEF SysEnvDestroy, Named
    <3> QED BY <1>1, <2>9, <3>1, DestroyCore DEF SysEnvDestroy
  <2>10. ASSUME NEW e \in Env, SysIpcTrySend(c, e)
         PROVE  Core' /\ FreeListExact'
    <3>1. status[e] = "NOT_RUNNABLE"
      BY <1>1, <2>10, TrapRuns DEF SysIpcTrySend, Named
    <3>2. FreeListKept
      BY <2>10, <3>1 DEF SysIpcTrySend, FreeListKept, TypeOK
    <3> QED BY <1>1, <2>10, <3>2, IpcSendCore, KeptExact
  <2>11. ASSUME NEW e \in Env, NEW st \in {"RUNNABLE", "NOT_RUNNABLE"},
                SysEnvSetStatus(c, e, st)
         PROVE  Core' /\ FreeListExact'
    <3>1. FreeListKept
      BY <2>11 DEF SysEnvSetStatus, FreeListKept, TypeOK
    <3> QED BY <1>1, <2>11, <3>1, SetStatusCore, KeptExact
  <2>12. CASE Breakpoint(c)
    <3>1. FreeListKept
      BY <2>12 DEF Breakpoint, FreeListKept, envVars
    <3> QED BY <1>1, <2>12, <3>1, BreakpointCore, KeptExact
  <2>13. CASE Overflow(c)
    BY <2>13 DEF Overflow
  <2> QED BY <1>4, <2>1, <2>2, <2>3, <2>4, <2>5, <2>6, <2>7, <2>8, <2>9,
             <2>10, <2>11, <2>12, <2>13 DEF Other
<1> QED BY <1>2, <1>3, <1>4 DEF Next

LEMMA InitOwn == Init => OwnInv
<1> SUFFICES ASSUME Init PROVE OwnInv
  OBVIOUS
<1>1. /\ \A c \in Cpu : pc[c] \in {"sched", "boot"} /\ Cur(c) = NoEnv
      /\ \A e \in Env : status[e] \in {"RUNNABLE", "FREE"} /\ ~recving[e]
  BY DEF Init, Cur
<1>2. LockDiscipline
  BY CpuAssumption DEF Init, LockDiscipline, Locked
<1>3. /\ NoPanic /\ CurenvByPlace /\ CurenvOnCpu /\ OneCpu
      /\ RunningHasCpu /\ RecvingBlocked /\ CpunumRight
  BY <1>1 DEF NoPanic, CurenvByPlace, CurenvOnCpu, OneCpu, RunningHasCpu,
     RecvingBlocked, CpunumRight, InUser
<1>4. FreeListExact
  <2>1. /\ NENV - NInit \in Nat /\ NInit \in Nat
        /\ DOMAIN freeList = 1 .. NENV - NInit
        /\ \A i \in 1 .. NENV - NInit : freeList[i] = NInit + i - 1
        /\ \A e \in Env : status[e] = "FREE" <=> ~(e < NInit)
    BY SizeAssumption DEF Init
  <2>2. ASSUME NEW e \in Env, ~(e < NInit)
        PROVE  e - NInit + 1 \in DOMAIN freeList /\ freeList[e - NInit + 1] = e
    BY <2>1, <2>2, SizeAssumption DEF Env
  <2>3. \A e \in Env : (\E i \in DOMAIN freeList : freeList[i] = e) => ~(e < NInit)
    BY <2>1
  <2>4. \A i, j \in DOMAIN freeList : i # j => freeList[i] # freeList[j]
    BY <2>1
  <2>5. \A e \in Env : pgdir[e] <=> e < NInit
    BY Zenon DEF Init
  <2> QED BY <2>1, <2>2, <2>3, <2>4, <2>5 DEF FreeListExact
<1> QED BY <1>2, <1>3, <1>4 DEF OwnInv

LEMMA OwnAlways == ASSUME LibUsers PROVE Spec => [](TypeOK /\ OwnInv)
<1>1. Init => TypeOK /\ OwnInv
  BY InitType, InitOwn
<1>2. TypeOK /\ OwnInv /\ [Next]_vars => (TypeOK /\ OwnInv)'
  BY NextType, OwnStep
<1> QED BY <1>1, <1>2, PTL DEF Spec

\* Ownership of processors, environments, page directories, free slots and the
\* lock at every place of the kernel, for any number of processors and
\* environments, if the programs call it as lib/ and user/ do.
THEOREM OwnCorrect == ASSUME LibUsers PROVE Spec => []OwnInv
BY OwnAlways, PTL

\* No environment is ever on two processors, for any number of processors and
\* environments, if the programs call the kernel as lib/ and user/ do.
THEOREM OneCpuCorrect == ASSUME LibUsers PROVE Spec => []OneCpu
<1>1. OwnInv => OneCpu
  BY DEF OwnInv
<1> QED BY <1>1, OwnAlways, PTL

\* Under the same condition the free list is exactly the FREE slots.
THEOREM FreeListCorrect == ASSUME LibUsers PROVE Spec => []FreeListExact
<1>1. OwnInv => FreeListExact
  BY DEF OwnInv
<1> QED BY <1>1, OwnAlways, PTL

\* ... and no call ends in _panic(): env_run() and env_free() never meet an
\* environment without a page directory, and one that a processor has loaded is
\* not freed.
THEOREM PgdirCorrect == ASSUME LibUsers PROVE Spec => [](NoPanic /\ PgdirLoaded)
<1>1. TypeOK /\ OwnInv => NoPanic /\ PgdirLoaded
  <2> SUFFICES ASSUME TypeOK, OwnInv PROVE PgdirLoaded
    BY DEF OwnInv
  <2>1. \A e \in Env : status[e] # "FREE" => pgdir[e]
    BY DEF OwnInv, FreeListExact
  <2> SUFFICES ASSUME NEW c \in Cpu, pc[c] \in InUser
               PROVE  Cur(c) # NoEnv /\ pgdir[Cur(c)]
    BY DEF PgdirLoaded
  <2>2. Cur(c) # NoEnv /\ status[Cur(c)] \in {"RUNNING", "DYING"}
    BY DEF OwnInv, CurenvOnCpu
  <2>3. Cur(c) \in Env
    BY <2>2 DEF TypeOK, Cur
  <2> QED BY <2>1, <2>2, <2>3
<1> QED BY <1>1, OwnAlways, PTL

\* ... and sched_halt() never gives up, with the lock, while another processor
\* is inside a user program.
THEOREM MonitorCorrect == ASSUME LibUsers PROVE Spec => []MonitorStrandsNobody
<1>1. TypeOK /\ OwnInv => MonitorStrandsNobody
  BY DEF OwnInv, MonitorStrandsNobody, CurenvOnCpu, CurenvByPlace, TypeOK, Cur
<1> QED BY <1>1, OwnAlways, PTL

-----------------------------------------------------------------------------
(* Kernel implements EnvOwnership: each step of the kernel is a step on    *)
(* the mapped state, or leaves it alone.                                   *)

MapAlive == {e \in Env : status[e] # "FREE"}
MapCondemned == {e \in Env : status[e] = "DYING"}
MapOn == [c \in Cpu |-> OnCpu(c)]

LEMMA OwnershipActions ==
  ASSUME NEW c \in Cpu, NEW e \in Env
  PROVE  /\ /\ e \notin MapAlive /\ MapAlive' = MapAlive \cup {e}
            /\ MapCondemned' = MapCondemned /\ MapOn' = MapOn
            => Ownership!Next
         /\ /\ e \in MapAlive /\ \A d \in Cpu : OnCpu(d) # e
            /\ OnCpu(c) \notin MapCondemned
            /\ MapAlive' = MapAlive /\ MapCondemned' = MapCondemned
            /\ MapOn' = [MapOn EXCEPT ![c] = e]
            => Ownership!Next
         /\ /\ OnCpu(c) \in MapAlive \ MapCondemned
            /\ MapAlive' = MapAlive /\ MapCondemned' = MapCondemned
            /\ MapOn' = [MapOn EXCEPT ![c] = NoEnv]
            => Ownership!Next
         /\ /\ OnCpu(c) \in MapAlive
            /\ MapAlive' = MapAlive \ {OnCpu(c)}
            /\ MapCondemned' = MapCondemned \ {OnCpu(c)}
            /\ MapOn' = [MapOn EXCEPT ![c] = NoEnv]
            => Ownership!Next
         /\ /\ e \notin MapCondemned /\ \E d \in Cpu : OnCpu(d) = e
            /\ MapAlive' = MapAlive /\ MapOn' = MapOn
            /\ MapCondemned' = MapCondemned \cup {e}
            => Ownership!Next
         /\ /\ e \in MapAlive /\ \A d \in Cpu : OnCpu(d) # e
            /\ MapAlive' = MapAlive \ {e}
            /\ MapCondemned' = MapCondemned /\ MapOn' = MapOn
            => Ownership!Next
<1>1. /\ \A d \in Cpu : MapOn[d] = OnCpu(d)
      /\ Ownership!Running = {MapOn[d] : d \in Cpu} \ {NoEnv}
  BY DEF MapOn, Ownership!Running
<1>2. e # NoEnv
  BY EnvFacts
<1>3. /\ e \notin MapAlive /\ MapAlive' = MapAlive \cup {e}
      /\ MapCondemned' = MapCondemned /\ MapOn' = MapOn
      => Ownership!Create(e)
  BY DEF Ownership!Create, MapAlive, MapCondemned, MapOn
<1>4. /\ e \in MapAlive /\ \A d \in Cpu : OnCpu(d) # e
      /\ OnCpu(c) \notin MapCondemned
      /\ MapAlive' = MapAlive /\ MapCondemned' = MapCondemned
      /\ MapOn' = [MapOn EXCEPT ![c] = e]
      => Ownership!Dispatch(c, e)
  BY <1>1 DEF Ownership!Dispatch, MapAlive, MapCondemned, MapOn
<1>5. /\ OnCpu(c) \in MapAlive \ MapCondemned
      /\ MapAlive' = MapAlive /\ MapCondemned' = MapCondemned
      /\ MapOn' = [MapOn EXCEPT ![c] = NoEnv]
      => Ownership!Release(c)
  BY <1>1 DEF Ownership!Release, MapAlive, MapCondemned, MapOn
<1>6. /\ OnCpu(c) \in MapAlive
      /\ MapAlive' = MapAlive \ {OnCpu(c)}
      /\ MapCondemned' = MapCondemned \ {OnCpu(c)}
      /\ MapOn' = [MapOn EXCEPT ![c] = NoEnv]
      => Ownership!Exit(c)
  BY <1>1 DEF Ownership!Exit, MapAlive, MapCondemned, MapOn
<1>7. /\ e \notin MapCondemned /\ \E d \in Cpu : OnCpu(d) = e
      /\ MapAlive' = MapAlive /\ MapOn' = MapOn
      /\ MapCondemned' = MapCondemned \cup {e}
      => Ownership!Condemn(e)
  BY <1>1, <1>2 DEF Ownership!Condemn, MapAlive, MapCondemned, MapOn
<1>8. /\ e \in MapAlive /\ \A d \in Cpu : OnCpu(d) # e
      /\ MapAlive' = MapAlive \ {e}
      /\ MapCondemned' = MapCondemned /\ MapOn' = MapOn
      => Ownership!Kill(e)
  BY <1>1 DEF Ownership!Kill, MapAlive, MapCondemned, MapOn
<1> QED BY <1>3, <1>4, <1>5, <1>6, <1>7, <1>8 DEF Ownership!Next

LEMMA OwnershipStutter ==
  ASSUME MapAlive' = MapAlive, MapCondemned' = MapCondemned, MapOn' = MapOn
  PROVE  UNCHANGED Ownership!vars
BY DEF Ownership!vars, MapAlive, MapCondemned, MapOn

\* A step of c that keeps the environments of the other processors on them.
LEMMA MapOnUpdate ==
  ASSUME TypeOK, LockDiscipline, Core, NEW c \in Cpu, pc[c] \in Locked,
         curenv' = [curenv EXCEPT ![c] = curenv'[c]],
         \A f \in Env \ {Cur(c)} : status[f] \in {"RUNNING", "DYING"} =>
            status'[f] \in {"RUNNING", "DYING"}
  PROVE  MapOn' = [MapOn EXCEPT ![c] = OnCpu(c)']
<1>1. ASSUME NEW d \in Cpu \ {c} PROVE OnCpu(d)' = OnCpu(d)
  <2>1. curenv'[d] = curenv[d]
    BY DEF TypeOK
  <2>2. CASE Cur(d) = NoEnv
    BY <2>1, <2>2 DEF OnCpu, Cur
  <2>3. CASE Cur(d) # NoEnv
    <3>1. Cur(d) \in Env /\ status[Cur(d)] \in {"RUNNING", "DYING"} /\ Cur(d) # Cur(c)
      BY <2>3, OthersRun DEF TypeOK, Cur
    <3> QED BY <2>1, <2>3, <3>1 DEF OnCpu, Cur
  <2> QED BY <2>2, <2>3
<1> QED BY <1>1 DEF MapOn

LEMMA MapOnSame ==
  ASSUME NEW c \in Cpu, MapOn' = [MapOn EXCEPT ![c] = OnCpu(c)'], OnCpu(c)' = OnCpu(c)
  PROVE  MapOn' = MapOn
BY DEF MapOn

LEMMA OnlyCurOn ==
  ASSUME TypeOK, LockDiscipline, Core, NEW d \in Cpu, NEW e \in Env, OnCpu(d) = e
  PROVE  Cur(d) = e /\ status[e] \in {"RUNNING", "DYING"}
BY EnvFacts DEF OnCpu

\* Freeing e: the end of c's environment, or of one that is on no processor.
LEMMA FreeMaps ==
  ASSUME TypeOK, LockDiscipline, Core, NEW c \in Cpu, pc[c] = "trap",
         NEW e \in Env, EnvFree(e), status[e] # "FREE",
         curenv' = IF Cur(c) = e THEN [curenv EXCEPT ![c] = NoEnv] ELSE curenv,
         Cur(c) = e => status[e] \in {"RUNNING", "DYING"},
         Cur(c) # e => status[e] \notin {"RUNNING", "DYING"}
  PROVE  Ownership!Next
<1>1. status'[e] = "FREE" /\ \A f \in Env \ {e} : status'[f] = status[f]
  BY DEF EnvFree, TypeOK
<1>2. pc[c] \in Locked /\ curenv' = [curenv EXCEPT ![c] = curenv'[c]]
  BY DEF TypeOK, Locked
<1>3. MapOn' = [MapOn EXCEPT ![c] = OnCpu(c)']
  BY <1>1, <1>2, MapOnUpdate
<1>4. MapAlive' = MapAlive \ {e}
  BY <1>1 DEF MapAlive
<1>5. CASE Cur(c) = e
  <2>1. OnCpu(c) = e /\ OnCpu(c)' = NoEnv
    BY <1>5, EnvFacts DEF OnCpu, Cur, TypeOK
  <2>2. MapCondemned' = MapCondemned \ {e}
    BY <1>1 DEF MapCondemned
  <2>3. e \in MapAlive
    BY DEF MapAlive
  <2> QED BY <1>3, <1>4, <2>1, <2>2, <2>3, OwnershipActions
<1>6. CASE Cur(c) # e
  <2>1. OnCpu(c)' = OnCpu(c)
    BY <1>1, <1>6 DEF OnCpu, Cur, TypeOK
  <2>2. MapOn' = MapOn
    BY <1>3, <2>1, MapOnSame
  <2>3. MapCondemned' = MapCondemned
    BY <1>1, <1>6 DEF MapCondemned
  <2>4. e \in MapAlive /\ \A d \in Cpu : OnCpu(d) # e
    BY <1>6, OnlyCurOn DEF MapAlive
  <2> QED BY <1>4, <2>2, <2>3, <2>4, OwnershipActions
<1> QED BY <1>5, <1>6

LEMMA DestroyMaps ==
  ASSUME TypeOK, LockDiscipline, FreeListExact, Core, NEW c \in Cpu,
         Dispatching(c), NEW e \in Env, status[e] \notin {"FREE", "DYING"},
         EnvDestroy(c, e)
  PROVE  Ownership!Next
<1>1. CASE /\ RunsElsewhere(c, e)
           /\ status' = [status EXCEPT ![e] = "DYING"]
           /\ UNCHANGED curenv
  <2>1. /\ status'[e] = "DYING" /\ status[e] = "RUNNING" /\ Cur(c) # e
        /\ \A f \in Env \ {e} : status'[f] = status[f]
    BY <1>1 DEF TypeOK, RunsElsewhere
  <2>2. MapAlive' = MapAlive /\ MapCondemned' = MapCondemned \cup {e} /\ e \notin MapCondemned
    BY <2>1 DEF MapAlive, MapCondemned
  <2>3. MapOn' = MapOn
    <3>1. \A d \in Cpu : OnCpu(d)' = OnCpu(d)
      BY <1>1, <2>1 DEF OnCpu, Cur, TypeOK
    <3> QED BY <3>1 DEF MapOn
  <2>4. \E d \in Cpu : OnCpu(d) = e
    BY <2>1, CoreByCpu, EnvFacts DEF RunningHasCpu, OnCpu
  <2> QED BY <2>2, <2>3, <2>4, OwnershipActions
<1>2. CASE /\ ~RunsElsewhere(c, e) /\ EnvFree(e)
           /\ curenv' = IF Cur(c) = e THEN [curenv EXCEPT ![c] = NoEnv] ELSE curenv
  <2>1. Cur(c) # e => status[e] \notin {"RUNNING", "DYING"}
    BY <1>2 DEF RunsElsewhere
  <2> QED BY <1>2, <2>1, TrapRuns, FreeMaps
<1>3. pgdir[e]
  BY DEF FreeListExact
<1> QED BY <1>1, <1>2, <1>3 DEF EnvDestroy

LEMMA SchedRunMaps ==
  ASSUME TypeOK, LockDiscipline, FreeListExact, Core,
         NEW c \in Cpu, NEW e \in Env, SchedRun(c, e)
  PROVE  Ownership!Next \/ UNCHANGED Ownership!vars
<1>1. pc[c] \in Locked /\ pc[c] = "sched"
  BY DEF SchedRun, Locked
<1>2. Cur(c) # NoEnv => /\ Cur(c) \in Env
                        /\ status[Cur(c)] \in {"RUNNING", "NOT_RUNNABLE"}
  BY <1>1, CoreByCpu DEF CoreOf, TypeOK, Cur
<1>3. curenv' = [curenv EXCEPT ![c] = curenv'[c]] /\ curenv'[c] = e
  BY DEF SchedRun, EnvRun, TypeOK
<1>4. Preempted(c) \in [Env -> Status]
  BY DEF Preempted, TypeOK, Status
<1>5. /\ status'[e] = "RUNNING"
      /\ \A f \in Env \ {e} : status'[f] = Preempted(c)[f]
  BY <1>4 DEF SchedRun, EnvRun
<1>6. \A f \in Env \ {Cur(c)} : Preempted(c)[f] = status[f]
  BY DEF Preempted, TypeOK
<1>7. Cur(c) # NoEnv => Preempted(c)[Cur(c)] \in {"RUNNABLE", "NOT_RUNNABLE"}
  BY <1>2 DEF Preempted, TypeOK
<1>8. e = Cur(c) \/ status[e] = "RUNNABLE"
  BY DEF SchedRun, Eligible, Runnable
<1>9. status[e] \notin {"FREE", "DYING"}
  BY <1>2, <1>8, EnvFacts
<1>10. MapAlive' = MapAlive /\ MapCondemned' = MapCondemned
  <2>1. \A f \in Env : (status'[f] = "FREE" <=> status[f] = "FREE")
                       /\ (status'[f] = "DYING" <=> status[f] = "DYING")
    <3> SUFFICES ASSUME NEW f \in Env
                 PROVE  /\ status'[f] = "FREE" <=> status[f] = "FREE"
                        /\ status'[f] = "DYING" <=> status[f] = "DYING"
      OBVIOUS
    <3>1. CASE f = e
      BY <3>1, <1>5, <1>9
    <3>2. CASE f # e /\ f = Cur(c)
      BY <3>2, <1>2, <1>5, <1>7, EnvFacts
    <3>3. CASE f # e /\ f # Cur(c)
      BY <3>3, <1>5, <1>6
    <3> QED BY <3>1, <3>2, <3>3
  <2> QED BY <2>1 DEF MapAlive, MapCondemned
<1>11. MapOn' = [MapOn EXCEPT ![c] = e]
  <2>1. OnCpu(c)' = e
    BY <1>3, <1>5, EnvFacts DEF OnCpu, Cur
  <2>2. \A f \in Env \ {Cur(c)} : status[f] \in {"RUNNING", "DYING"} =>
            status'[f] \in {"RUNNING", "DYING"}
    BY <1>5, <1>6
  <2> QED BY <1>1, <1>3, <2>1, <2>2, MapOnUpdate
<1>12. CASE e # Cur(c)
  <2>1. status[e] = "RUNNABLE"
    BY <1>8, <1>12
  <2>2. e \in MapAlive /\ \A d \in Cpu : OnCpu(d) # e
    BY <1>9, <2>1, OnlyCurOn DEF MapAlive
  <2>3. OnCpu(c) \notin MapCondemned
    BY <1>2, EnvFacts DEF OnCpu, MapCondemned
  <2> QED BY <1>10, <1>11, <2>2, <2>3, OwnershipActions
<1>13. CASE e = Cur(c)
  <2>1. status[e] = "RUNNING"
    BY <1>2, <1>13, EnvFacts DEF SchedRun, Eligible, Runnable
  <2>2. OnCpu(c) = e
    BY <1>13, <2>1, EnvFacts DEF OnCpu
  <2>3. MapOn' = MapOn
    BY <1>11, <2>2 DEF MapOn
  <2> QED BY <1>10, <2>3, OwnershipStutter
<1> QED BY <1>12, <1>13

LEMMA OtherMaps ==
  ASSUME TypeOK, LockDiscipline, FreeListExact, Core, LibUsers,
         NEW c \in Cpu, Other(c)
  PROVE  Ownership!Next \/ UNCHANGED Ownership!vars
<1>1. CASE UNCHANGED <<status, curenv>>
  <2>1. MapOn' = MapOn /\ MapAlive' = MapAlive /\ MapCondemned' = MapCondemned
    BY <1>1 DEF MapOn, MapAlive, MapCondemned, OnCpu, Cur
  <2> QED BY <2>1, OwnershipStutter
<1>2. CASE \/ TrapFromUser(c) \/ TrapFromHalt(c) \/ Acquire(c) \/ Leave(c)
           \/ Stopped(c) \/ Timer(c) \/ SysYield(c) \/ Harmless(c)
           \/ Breakpoint(c) \/ Overflow(c)
  BY <1>1, <1>2 DEF TrapFromUser, TrapFromHalt, Acquire, Leave, Stopped,
     Timer, SysYield, Harmless, Breakpoint, Overflow, Panic, vars, envVars
<1>3. CASE SchedIdle(c)
  <2>1. pc[c] = "sched" /\ pc[c] \in Locked /\ status' = status
    BY <1>3 DEF SchedIdle, SchedHalt, Locked, envVars
  <2>2. Cur(c) = NoEnv \/ status[Cur(c)] = "NOT_RUNNABLE"
    BY <2>1, <1>3, CoreByCpu DEF CoreOf, SchedIdle, Eligible, Runnable
  <2>3. CASE curenv' = [curenv EXCEPT ![c] = NoEnv]
    <3>1. MapOn' = [MapOn EXCEPT ![c] = OnCpu(c)']
      BY <2>1, <2>3, MapOnUpdate DEF TypeOK
    <3>2. OnCpu(c) = NoEnv /\ OnCpu(c)' = NoEnv
      BY <2>2, <2>3 DEF OnCpu, Cur, TypeOK
    <3>3. MapOn' = MapOn
      BY <3>1, <3>2, MapOnSame
    <3> QED BY <2>1, <3>3, OwnershipStutter DEF MapAlive, MapCondemned
  <2>4. CASE UNCHANGED curenv
    BY <1>1, <2>1, <2>4
  <2> QED BY <1>3, <2>3, <2>4 DEF SchedIdle, SchedHalt
<1>4. CASE Zombie(c)
  <2>1. /\ pc[c] = "trap" /\ Cur(c) \in Env /\ status[Cur(c)] = "DYING"
        /\ EnvFree(Cur(c)) /\ curenv' = [curenv EXCEPT ![c] = NoEnv]
    BY <1>4 DEF Zombie, TypeOK, Cur
  <2> QED BY <2>1, FreeMaps
<1>5. CASE Fault(c)
  <2>1. Dispatching(c) /\ Cur(c) \in Env /\ status[Cur(c)] = "RUNNING"
    BY <1>5, TrapRuns DEF Fault
  <2> QED BY <1>5, <2>1, DestroyMaps DEF Fault
<1>6. CASE SysExofork(c)
  <2> DEFINE h == Head(freeList)
  <2>1. h \in Env /\ status[h] = "FREE" /\ curenv' = curenv
    BY <1>6, FreeListPop DEF SysExofork, Status
  <2>2. status'[h] = "NOT_RUNNABLE" /\ \A f \in Env \ {h} : status'[f] = status[f]
    BY <1>6, <2>1 DEF SysExofork, EnvAlloc, TypeOK
  <2>3. /\ MapAlive' = MapAlive \cup {h} /\ h \notin MapAlive
        /\ MapCondemned' = MapCondemned
    BY <2>1, <2>2 DEF MapAlive, MapCondemned
  <2>4. \A d \in Cpu : OnCpu(d)' = OnCpu(d)
    BY <2>1, <2>2 DEF OnCpu, Cur, TypeOK
  <2>5. MapOn' = MapOn
    BY <2>4 DEF MapOn
  <2> QED BY <2>1, <2>3, <2>5, OwnershipActions
<1>7. CASE SysIpcRecv(c)
  <2>1. /\ Dispatching(c) /\ curenv' = curenv /\ pc[c] \in Locked
        /\ status' = [status EXCEPT ![Cur(c)] = "NOT_RUNNABLE"]
    BY <1>7 DEF SysIpcRecv, Dispatching, Locked
  <2>2. Cur(c) \in Env /\ status[Cur(c)] = "RUNNING" /\ Cur(c)' = Cur(c)
    BY <2>1, TrapRuns DEF Cur
  <2>3. /\ status'[Cur(c)] = "NOT_RUNNABLE"
        /\ \A f \in Env \ {Cur(c)} : status'[f] = status[f]
    BY <2>1, <2>2 DEF TypeOK
  <2>4. OnCpu(c) = Cur(c) /\ OnCpu(c)' = NoEnv
    BY <2>2, <2>3, EnvFacts DEF OnCpu
  <2>5. MapOn' = [MapOn EXCEPT ![c] = NoEnv]
    BY <2>1, <2>3, <2>4, MapOnUpdate DEF TypeOK
  <2>6. /\ MapAlive' = MapAlive /\ MapCondemned' = MapCondemned
        /\ Cur(c) \in MapAlive \ MapCondemned
    BY <2>2, <2>3 DEF MapAlive, MapCondemned
  <2> QED BY <2>2, <2>4, <2>5, <2>6, OwnershipActions
<1>8. CASE SysIpcRecvBad(c)
  BY <1>8 DEF SysIpcRecvBad
<1>9. ASSUME NEW e \in Env, SysEnvDestroy(c, e)
      PROVE  Ownership!Next \/ UNCHANGED Ownership!vars
  <2>1. Dispatching(c) /\ status[e] \notin {"FREE", "DYING"}
    BY <1>9, TrapRuns DEF SysEnvDestroy, Named
  <2> QED BY <1>9, <2>1, DestroyMaps DEF SysEnvDestroy
<1>10. ASSUME NEW e \in Env, status[e] = "NOT_RUNNABLE", UNCHANGED curenv,
              status' = [status EXCEPT ![e] = "RUNNABLE"]
       PROVE  UNCHANGED Ownership!vars
  <2>1. status'[e] = "RUNNABLE" /\ \A f \in Env \ {e} : status'[f] = status[f]
    BY <1>10 DEF TypeOK
  <2>2. MapAlive' = MapAlive /\ MapCondemned' = MapCondemned
    BY <1>10, <2>1 DEF MapAlive, MapCondemned
  <2>3. \A d \in Cpu : OnCpu(d)' = OnCpu(d)
    BY <1>10, <2>1 DEF OnCpu, Cur, TypeOK
  <2>4. MapOn' = MapOn
    BY <2>3 DEF MapOn
  <2> QED BY <2>2, <2>4, OwnershipStutter
<1>11. ASSUME NEW e \in Env, SysIpcTrySend(c, e)
       PROVE  Ownership!Next \/ UNCHANGED Ownership!vars
  <2>1. status[e] = "NOT_RUNNABLE"
    BY <1>11, TrapRuns DEF SysIpcTrySend, Named
  <2> QED BY <1>10, <1>11, <2>1 DEF SysIpcTrySend
<1>12. ASSUME NEW e \in Env, NEW st \in {"RUNNABLE", "NOT_RUNNABLE"},
              SysEnvSetStatus(c, e, st)
       PROVE  Ownership!Next \/ UNCHANGED Ownership!vars
  BY <1>10, <1>12 DEF SysEnvSetStatus
<1> QED BY <1>2, <1>3, <1>4, <1>5, <1>6, <1>7, <1>8, <1>9, <1>11, <1>12 DEF Other

\* The kernel implements EnvOwnership, for any number of processors and
\* environments, if the programs call it as lib/ and user/ do.
THEOREM OwnershipImplemented == ASSUME LibUsers PROVE Spec => ImplementsOwnership
<1>1. Init => Ownership!Init
  <2> SUFFICES ASSUME Init PROVE Ownership!Init
    OBVIOUS
  <2>1. /\ \A c \in Cpu : Cur(c) = NoEnv
        /\ \A e \in Env : status[e] # "DYING"
    BY DEF Init, Cur
  <2> QED BY <2>1 DEF Ownership!Init, OnCpu
<1>2. TypeOK /\ OwnInv /\ [Next]_vars => [Ownership!Next]_(Ownership!vars)
  <2> SUFFICES ASSUME TypeOK, OwnInv, [Next]_vars
               PROVE  Ownership!Next \/ UNCHANGED Ownership!vars
    OBVIOUS
  <2>1. LockDiscipline /\ Core /\ FreeListExact
    BY DEF OwnInv, Core
  <2>2. CASE UNCHANGED vars
    BY <2>2, OwnershipStutter DEF vars, MapOn, MapAlive, MapCondemned, OnCpu, Cur
  <2> QED BY <2>1, <2>2, SchedRunMaps, OtherMaps DEF Next
<1> QED BY <1>1, <1>2, OwnAlways, PTL DEF Spec, ImplementsOwnership, Ownership!Spec

-----------------------------------------------------------------------------
(* When a killed environment is reclaimed.                                 *)

StepOf(c) == Other(c) \/ \E e \in Env : SchedRun(c, e)

\* Any step that kills a living environment e is a destroy by a handler of c.
LEMMA Killing ==
  ASSUME TypeOK, NEW c \in Cpu, StepOf(c), NEW e \in Env,
         status[e] \notin {"FREE", "DYING"}, status'[e] \in {"FREE", "DYING"}
  PROVE  /\ pc[c] = "trap" /\ Cur(c) # NoEnv
         /\ status'[e] = "FREE" => ~RunsElsewhere(c, e)
<1>1. status' # status
  OBVIOUS
<1>2. ASSUME NEW f, UNCHANGED status \/ status' = [status EXCEPT ![f] = "RUNNABLE"]
                  \/ status' = [status EXCEPT ![f] = "NOT_RUNNABLE"]
      PROVE  FALSE
  BY <1>2 DEF TypeOK
<1>3. ASSUME NEW f \in Env, EnvFree(f) PROVE e = f /\ status'[e] = "FREE"
  BY <1>3 DEF EnvFree, TypeOK
<1>4. ASSUME NEW f \in Env, SchedRun(c, f) PROVE FALSE
  <2>1. Preempted(c) \in [Env -> Status]
        /\ Preempted(c)[e] \notin {"FREE", "DYING"}
    BY DEF Preempted, TypeOK, Status
  <2>2. status' = [Preempted(c) EXCEPT ![f] = "RUNNING"]
    BY <1>4 DEF SchedRun, EnvRun
  <2> QED BY <2>1, <2>2
<1>5. CASE \/ TrapFromUser(c) \/ TrapFromHalt(c) \/ Acquire(c) \/ Leave(c)
           \/ SchedIdle(c) \/ Stopped(c) \/ Timer(c) \/ SysYield(c) \/ Harmless(c)
           \/ SysIpcRecvBad(c) \/ Breakpoint(c) \/ Overflow(c)
  BY <1>1, <1>5 DEF TrapFromUser, TrapFromHalt, Acquire, Leave, SchedIdle,
     SchedHalt, Stopped, Timer, SysYield, Harmless, SysIpcRecvBad, Breakpoint,
     Overflow, Panic, vars, envVars
<1>6. CASE SysIpcRecv(c)
  BY <1>2, <1>6 DEF SysIpcRecv
<1>7. CASE SysExofork(c)
  BY <1>2, <1>7 DEF SysExofork, EnvAlloc
<1>8. CASE Zombie(c)
  <2>1. Cur(c) \in Env /\ status[Cur(c)] = "DYING" /\ EnvFree(Cur(c))
    BY <1>8 DEF Zombie, TypeOK, Cur
  <2> QED BY <2>1, <1>3
<1>9. ASSUME NEW f \in Env, Dispatching(c), EnvDestroy(c, f)
      PROVE  e = f /\ (status'[e] = "FREE" => ~RunsElsewhere(c, e))
  <2>1. CASE RunsElsewhere(c, f) /\ status' = [status EXCEPT ![f] = "DYING"]
    BY <2>1 DEF TypeOK
  <2>2. CASE ~RunsElsewhere(c, f) /\ EnvFree(f)
    BY <2>2, <1>3
  <2>3. CASE Panic(c)
    BY <2>3, <1>1 DEF Panic, envVars
  <2> QED BY <1>9, <2>1, <2>2, <2>3 DEF EnvDestroy
<1>10. CASE Fault(c)
  <2>1. Dispatching(c) /\ Cur(c) \in Env /\ EnvDestroy(c, Cur(c))
    BY <1>10 DEF Fault, Dispatching, TypeOK, Cur
  <2> QED BY <2>1, <1>9 DEF Dispatching
<1>11. ASSUME NEW f \in Env, SysEnvDestroy(c, f)
       PROVE  /\ pc[c] = "trap" /\ Cur(c) # NoEnv
              /\ status'[e] = "FREE" => ~RunsElsewhere(c, e)
  BY <1>9, <1>11 DEF SysEnvDestroy, Dispatching
<1>12. ASSUME NEW f \in Env, SysIpcTrySend(c, f) PROVE FALSE
  BY <1>2, <1>12 DEF SysIpcTrySend
<1>13. ASSUME NEW f \in Env, NEW st \in {"RUNNABLE", "NOT_RUNNABLE"},
              SysEnvSetStatus(c, f, st)
       PROVE  FALSE
  BY <1>2, <1>13 DEF SysEnvSetStatus
<1> QED BY <1>4, <1>5, <1>6, <1>7, <1>8, <1>10, <1>11, <1>12, <1>13 DEF StepOf, Other

\* If the programs call the kernel as lib/ and user/ do, only the processor
\* that has a DYING environment as curenv ends it, in trap().
LEMMA Burying ==
  ASSUME LibUsers, TypeOK, Core, FreeListExact, NEW c \in Cpu, StepOf(c),
         NEW e \in Env, status[e] = "DYING", status'[e] # "DYING"
  PROVE  pc[c] = "trap" /\ Cur(c) = e /\ status'[e] = "FREE"
<1>1. ASSUME NEW f \in Env, status[f] # "DYING", NEW s,
             status' = [status EXCEPT ![f] = s]
      PROVE  FALSE
  BY <1>1 DEF TypeOK
<1>2. status' # status
  OBVIOUS
<1>3. ASSUME NEW f \in Env, SchedRun(c, f) PROVE FALSE
  <2>1. status[f] # "DYING"
    BY <1>3 DEF SchedRun, Eligible, Runnable
  <2>2. Preempted(c) \in [Env -> Status] /\ Preempted(c)[e] = "DYING"
    BY DEF Preempted, TypeOK, Status
  <2>3. status' = [Preempted(c) EXCEPT ![f] = "RUNNING"]
    BY <1>3 DEF SchedRun, EnvRun
  <2> QED BY <2>1, <2>2, <2>3
<1>4. CASE \/ TrapFromUser(c) \/ TrapFromHalt(c) \/ Acquire(c) \/ Leave(c)
           \/ SchedIdle(c) \/ Stopped(c) \/ Timer(c) \/ SysYield(c) \/ Harmless(c)
           \/ SysIpcRecvBad(c) \/ Breakpoint(c) \/ Overflow(c)
  BY <1>2, <1>4 DEF TrapFromUser, TrapFromHalt, Acquire, Leave, SchedIdle,
     SchedHalt, Stopped, Timer, SysYield, Harmless, SysIpcRecvBad, Breakpoint,
     Overflow, Panic, vars, envVars
<1>5. CASE SysIpcRecv(c)
  <2>1. /\ Dispatching(c)
        /\ status' = [status EXCEPT ![Cur(c)] = "NOT_RUNNABLE"]
    BY <1>5 DEF SysIpcRecv
  <2> QED BY <2>1, <1>1, TrapRuns
<1>6. CASE SysExofork(c)
  <2> DEFINE h == Head(freeList)
  <2>1. h \in Env /\ status[h] = "FREE"
    BY <1>6, FreeListPop DEF SysExofork, Status
  <2>2. status' = [status EXCEPT ![h] = "NOT_RUNNABLE"]
    BY <1>6 DEF SysExofork, EnvAlloc
  <2> QED BY <2>1, <2>2, <1>1
<1>7. CASE Zombie(c)
  <2>1. /\ pc[c] = "trap" /\ Cur(c) \in Env /\ status[Cur(c)] = "DYING"
        /\ status' = [status EXCEPT ![Cur(c)] = "FREE"]
    BY <1>7 DEF Zombie, EnvFree, TypeOK, Cur
  <2>2. Cur(c) = e /\ status'[e] = "FREE"
    BY <2>1 DEF TypeOK
  <2> QED BY <2>1, <2>2
<1>8. ASSUME NEW f \in Env, status[f] # "DYING", EnvDestroy(c, f) PROVE FALSE
  <2>1. CASE status' = [status EXCEPT ![f] = "DYING"]
    BY <2>1, <1>8, <1>1
  <2>2. CASE EnvFree(f)
    BY <2>2, <1>8, <1>1 DEF EnvFree
  <2>3. CASE Panic(c)
    BY <2>3, <1>2 DEF Panic, envVars
  <2> QED BY <1>8, <2>1, <2>2, <2>3 DEF EnvDestroy
<1>9. CASE Fault(c)
  BY <1>8, <1>9, TrapRuns DEF Fault
<1>10. ASSUME NEW f \in Env, SysEnvDestroy(c, f) PROVE FALSE
  BY <1>8, <1>10 DEF SysEnvDestroy
<1>11. ASSUME NEW f \in Env, SysIpcTrySend(c, f) PROVE FALSE
  <2>1. /\ status[f] \in {"NOT_RUNNABLE", "FREE"}
        /\ status' = [status EXCEPT ![f] = "RUNNABLE"]
    BY <1>11, TrapRuns DEF SysIpcTrySend
  <2> QED BY <2>1, <1>1
<1>12. ASSUME NEW f \in Env, NEW st \in {"RUNNABLE", "NOT_RUNNABLE"},
              SysEnvSetStatus(c, f, st)
       PROVE  FALSE
  <2>1. status[f] = "NOT_RUNNABLE" /\ status' = [status EXCEPT ![f] = st]
    BY <1>12 DEF SysEnvSetStatus
  <2> QED BY <2>1, <1>1
<1> QED BY <1>3, <1>4, <1>5, <1>6, <1>7, <1>9, <1>10, <1>11, <1>12 DEF StepOf, Other

\* A kill is final: a DYING environment only ever becomes FREE, if the
\* programs call the kernel as lib/ and user/ do.
THEOREM DyingIsFinalCorrect == ASSUME LibUsers PROVE Spec => DyingIsFinal
<1> DEFINE A == \A e \in Env : status[e] = "DYING" => status'[e] \in {"DYING", "FREE"}
<1>1. TypeOK /\ OwnInv /\ [Next]_vars => [A]_vars
  <2> SUFFICES ASSUME TypeOK, OwnInv, [Next]_vars, vars' # vars,
                      NEW e \in Env, status[e] = "DYING", status'[e] # "DYING"
               PROVE  status'[e] = "FREE"
    BY Zenon
  <2>1. PICK c \in Cpu : StepOf(c)
    BY DEF Next, StepOf
  <2> QED BY <2>1, Burying DEF OwnInv, Core
<1> QED BY <1>1, OwnAlways, PTL DEF Spec, DyingIsFinal

\* An environment is freed only when no processor but the one that frees it,
\* in trap(), has it as curenv, if the programs call the kernel as lib/ and
\* user/ do: its page directory is never taken from under a running program.
THEOREM ReclaimedOffCpuCorrect == ASSUME LibUsers PROVE Spec => ReclaimedOffCpu
<1> DEFINE A == \A e \in Env : status[e] # "FREE" /\ status'[e] = "FREE" =>
                  \A c \in Cpu : Cur(c) = e => pc[c] = "trap"
<1>1. TypeOK /\ OwnInv /\ [Next]_vars => [A]_vars
  <2> SUFFICES ASSUME TypeOK, OwnInv, [Next]_vars, vars' # vars,
                      NEW e \in Env, status[e] # "FREE", status'[e] = "FREE",
                      NEW d \in Cpu, Cur(d) = e
               PROVE  pc[d] = "trap"
    BY Zenon
  <2>1. LockDiscipline /\ Core /\ FreeListExact
    BY DEF OwnInv, Core
  <2>2. PICK c \in Cpu : StepOf(c)
    BY DEF Next, StepOf
  <2>3. pc[c] = "trap" /\ pc[c] \in Locked
    BY <2>1, <2>2, Burying, Killing DEF Locked
  <2>4. Cur(d) # NoEnv
    BY EnvFacts
  <2>5. CASE status[e] = "DYING"
    BY <2>1, <2>2, <2>4, <2>5, Burying DEF Core, OneCpu
  <2>6. CASE status[e] # "DYING"
    <3>1. status[e] = "RUNNING" => Cur(c) = e
      BY <2>2, <2>6, Killing DEF RunsElsewhere
    <3>2. d # c => status[e] = "RUNNING" /\ Cur(d) # Cur(c)
      BY <2>1, <2>3, <2>4, <2>6, OthersRun
    <3> QED BY <2>3, <3>1, <3>2
  <2> QED BY <2>5, <2>6
<1> QED BY <1>1, OwnAlways, PTL DEF Spec, ReclaimedOffCpu
-----------------------------------------------------------------------------
(* What EnvOwnership buys whoever implements it, in any variables.          *)
VARIABLES alive, condemned, on

Abstract == INSTANCE EnvOwnership

Typed == /\ alive \subseteq Env /\ condemned \subseteq Env
         /\ on \in [Cpu -> Env \cup {NoEnv}]

\* Each environment is on one processor at most, only existing environments
\* are on processors, and only those can be condemned: for any number of
\* processors and environments (the curenv and env_status of kern/env.c).
THEOREM OwnershipExclusive == Abstract!Spec => []Abstract!Exclusive
<1>1. Abstract!Init => Typed /\ Abstract!Exclusive
  BY DEF Abstract!Init, Typed, Abstract!Exclusive, Abstract!Running
<1>2. Typed /\ Abstract!Exclusive /\ [Abstract!Next]_(Abstract!vars) => Typed' /\ Abstract!Exclusive'
  <2> SUFFICES ASSUME Typed, Abstract!Exclusive, [Abstract!Next]_(Abstract!vars)
               PROVE  Typed' /\ Abstract!Exclusive'
    OBVIOUS
  <2> USE DEF Typed, Abstract!Exclusive, Abstract!Running
  <2>1. CASE UNCHANGED Abstract!vars
    BY <2>1 DEF Abstract!vars
  <2>2. ASSUME NEW e \in Env, Abstract!Create(e) PROVE Typed' /\ Abstract!Exclusive'
    BY <2>2 DEF Abstract!Create
  <2>3. ASSUME NEW e \in Env, Abstract!Condemn(e) PROVE Typed' /\ Abstract!Exclusive'
    BY <2>3 DEF Abstract!Condemn
  <2>4. ASSUME NEW e \in Env, Abstract!Kill(e) PROVE Typed' /\ Abstract!Exclusive'
    BY <2>4 DEF Abstract!Kill
  <2>5. ASSUME NEW c \in Cpu, Abstract!Release(c) PROVE Typed' /\ Abstract!Exclusive'
    BY <2>5 DEF Abstract!Release
  <2>6. ASSUME NEW c \in Cpu, Abstract!Exit(c) PROVE Typed' /\ Abstract!Exclusive'
    BY <2>6 DEF Abstract!Exit
  <2>7. ASSUME NEW c \in Cpu, NEW e \in Env, Abstract!Dispatch(c, e)
        PROVE  Typed' /\ Abstract!Exclusive'
    BY <2>7 DEF Abstract!Dispatch
  <2> QED BY <2>1, <2>2, <2>3, <2>4, <2>5, <2>6, <2>7 DEF Abstract!Next
<1> QED BY <1>1, <1>2, PTL DEF Abstract!Spec
=============================================================================
