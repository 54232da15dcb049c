---------------------------- MODULE LotteryProofs ----------------------------
(* The lottery build only makes choices that Kernel leaves open, so what    *)
(* KernelProofs shows of Kernel holds of it.                                *)
EXTENDS Lottery, KernelProofs, FiniteSetTheorems

\* The scan ends at one of the slots it is given, whatever number is drawn and
\* whatever tickets the slots hold.
LEMMA ScanRunnable ==
  ASSUME NEW S \in SUBSET Env, S # {}, NEW w PROVE Scan(S, w) \in S
<1> DEFINE counter(e) == Held({d \in S : d <= e})
           reached    == {e \in S : counter(e) >= w}
<1>1. reached \in SUBSET Env /\ S \in SUBSET Env
  OBVIOUS
<1>2. CASE reached # {}
  <2>1. \E x \in reached : \A y \in reached : x =< y
    BY <1>1, <1>2, FirstAndLastSlot
  <2>2. Min(reached) \in reached
    BY <2>1 DEF Min
  <2>3. Scan(S, w) = Min(reached)
    BY <1>2 DEF Scan
  <2> QED BY <2>2, <2>3
<1>3. CASE reached = {}
  <2>1. \E x \in S : \A y \in S : x >= y
    BY <1>1, FirstAndLastSlot
  <2>2. Max(S) \in S
    BY <2>1 DEF Max
  <2>3. Scan(S, w) = Max(S)
    BY <1>3 DEF Scan
  <2> QED BY <2>2, <2>3
<1> QED BY <1>2, <1>3

LEMMA RunsEligible ==
  ASSUME TypeOK, NEW c \in Cpu, LotteryRun(c)
  PROVE  \E e \in Env : SchedRun(c, e)
<1>1. ASSUME Runnable # {}, NEW w, EnvRun(c, Scan(Runnable, w))
      PROVE  \E e \in Env : SchedRun(c, e)
  <2>1. Scan(Runnable, w) \in Runnable
    BY <1>1, ScanRunnable DEF Runnable
  <2>2. Scan(Runnable, w) \in Env /\ Scan(Runnable, w) \in Eligible(c)
    BY <1>1, <2>1 DEF Eligible, Runnable
  <2>3. SchedRun(c, Scan(Runnable, w))
    BY <1>1, <2>2 DEF LotteryRun, SchedRun
  <2> QED BY <2>2, <2>3
<1>2. CASE /\ Runnable = {} /\ Cur(c) # NoEnv
           /\ status[Cur(c)] = "RUNNING" /\ EnvRun(c, Cur(c))
  <2>1. Cur(c) \in Env /\ Cur(c) \in Eligible(c)
    BY <1>2 DEF Eligible, TypeOK, Cur
  <2> QED BY <1>2, <2>1 DEF LotteryRun, SchedRun
<1> QED BY <1>1, <1>2 DEF LotteryRun

LEMMA ReduceIsKernel ==
  ASSUME NEW c \in Cpu, NEW p \in Percents, SysReducePriority(c, p)
  PROVE  Other(c)
BY DEF SysReducePriority, Fault, Other

LEMMA LotStep == TypeOK /\ [LotNext]_lotVars => [Next]_vars
<1> SUFFICES ASSUME TypeOK, LotNext PROVE [Next]_vars
  BY DEF lotVars
<1>1. PICK c \in Cpu : \/ LotteryRun(c) \/ LotteryExofork(c) \/ LotteryDestroy(c)
                       \/ LotteryTimer(c) \/ LotteryOther(c)
                       \/ \E p \in Percents : SysReducePriority(c, p)
  BY DEF LotNext
<1>2. CASE LotteryRun(c)
  BY <1>2, RunsEligible DEF Next
<1>3. CASE LotteryExofork(c)
  BY <1>3 DEF LotteryExofork, Other, Next
<1>4. CASE LotteryDestroy(c)
  BY <1>4 DEF LotteryDestroy, Other, Next
<1>5. CASE LotteryTimer(c)
  BY <1>5 DEF LotteryTimer, Other, Next
<1>6. CASE LotteryOther(c)
  BY <1>6 DEF LotteryOther, Other, Next
<1>7. CASE \E p \in Percents : SysReducePriority(c, p)
  BY <1>7, ReduceIsKernel DEF Next
<1> QED BY <1>1, <1>2, <1>3, <1>4, <1>5, <1>6, <1>7

\* "El algoritmo garantiza la ejecución de un proceso válido" (sched.md:174):
\* the lottery of kern/sched.c implements Kernel, for any number of processors
\* and slots, any tickets, any draw and any programs.
THEOREM LotteryImplements == LotSpec => ImplementsKernel
<1>1. LotInit => Init
  BY DEF LotInit
<1>2. Init => TypeOK
  BY InitType
<1>3. TypeOK /\ [LotNext]_lotVars => TypeOK'
  BY LotStep, NextType
<1> QED BY <1>1, <1>2, <1>3, LotStep, PTL DEF LotSpec, ImplementsKernel, Spec

-----------------------------------------------------------------------------
(* The tickets of one environment.                                         *)

\* The steps of processor c that are not a sys_exofork() that succeeds.
NoBirth(c) ==
  \/ TrapFromUser(c) \/ TrapFromHalt(c) \/ Acquire(c) \/ Leave(c)
  \/ SchedIdle(c) \/ Stopped(c)
  \/ Zombie(c) \/ Timer(c) \/ SysYield(c) \/ Harmless(c) \/ Fault(c)
  \/ Breakpoint(c) \/ Overflow(c) \/ SysIpcRecv(c) \/ SysIpcRecvBad(c)
  \/ \E e \in Env : \/ SchedRun(c, e) \/ SysEnvDestroy(c, e) \/ SysIpcTrySend(c, e)
                    \/ \E st \in {"RUNNABLE", "NOT_RUNNABLE"} :
                         SysEnvSetStatus(c, e, st)

\* If the programs call the kernel as lib/ and user/ do, a slot comes into use
\* only through sys_exofork().
LEMMA FreeStaysFree ==
  ASSUME LibUsers, TypeOK, Core, NEW c \in Cpu, NoBirth(c),
         NEW e \in Env, status[e] = "FREE"
  PROVE  status'[e] = "FREE"
<1> SUFFICES ASSUME status'[e] # "FREE" PROVE FALSE
  OBVIOUS
<1>1. ASSUME NEW f \in Env, status[f] # "FREE", NEW s,
             status' = [status EXCEPT ![f] = s]
      PROVE  FALSE
  BY <1>1 DEF TypeOK
<1>2. status' # status
  OBVIOUS
<1>3. ASSUME NEW f \in Env, SchedRun(c, f) PROVE FALSE
  <2>1. status[f] # "FREE"
    BY <1>3 DEF SchedRun, Eligible, Runnable
  <2>2. Preempted(c) \in [Env -> Status] /\ Preempted(c)[e] = "FREE"
    BY DEF Preempted, TypeOK, Status
  <2>3. status' = [Preempted(c) EXCEPT ![f] = "RUNNING"]
    BY <1>3 DEF SchedRun, EnvRun
  <2> QED BY <2>1, <2>2, <2>3
<1>4. CASE \/ TrapFromUser(c) \/ TrapFromHalt(c) \/ Acquire(c) \/ Leave(c)
           \/ SchedIdle(c) \/ Stopped(c) \/ Timer(c) \/ SysYield(c) \/ Harmless(c)
           \/ SysIpcRecvBad(c) \/ Breakpoint(c) \/ Overflow(c)
  BY <1>2, <1>4 DEF TrapFromUser, TrapFromHalt, Acquire, Leave, SchedIdle,
     SchedHalt, Stopped, Breakpoint, Overflow, Panic, Timer, SysYield, Harmless, SysIpcRecvBad, vars, envVars
<1>5. CASE SysIpcRecv(c)
  <2>1. /\ Dispatching(c)
        /\ status' = [status EXCEPT ![Cur(c)] = "NOT_RUNNABLE"]
    BY <1>5 DEF SysIpcRecv
  <2> QED BY <2>1, <1>1, TrapRuns
<1>7. CASE Zombie(c)
  <2>1. /\ Cur(c) \in Env /\ status[Cur(c)] = "DYING"
        /\ status' = [status EXCEPT ![Cur(c)] = "FREE"]
    BY <1>7 DEF Zombie, EnvFree, TypeOK, Cur
  <2> QED BY <2>1, <1>1
<1>8. ASSUME NEW f \in Env, status[f] # "FREE", EnvDestroy(c, f) PROVE FALSE
  <2>1. CASE status' = [status EXCEPT ![f] = "DYING"]
    BY <2>1, <1>8, <1>1
  <2>2. CASE EnvFree(f)
    BY <2>2, <1>8, <1>1 DEF EnvFree
  <2>3. CASE Panic(c)
    BY <2>3, <1>2 DEF Panic, envVars
  <2> QED BY <1>8, <2>1, <2>2, <2>3 DEF EnvDestroy
<1>9. CASE Fault(c)
  BY <1>8, <1>9, TrapRuns DEF Fault
<1>10. ASSUME NEW f \in Env, NEW b, Dispatching(c), f \in Named(c, b)
       PROVE  status[f] # "FREE"
  BY <1>10, TrapRuns DEF Named
<1>11. ASSUME NEW f \in Env, SysEnvDestroy(c, f) PROVE FALSE
  BY <1>8, <1>10, <1>11 DEF SysEnvDestroy
<1>12. ASSUME NEW f \in Env, SysIpcTrySend(c, f) PROVE FALSE
  BY <1>1, <1>10, <1>12 DEF SysIpcTrySend
<1>13. ASSUME NEW f \in Env, NEW st \in {"RUNNABLE", "NOT_RUNNABLE"},
              SysEnvSetStatus(c, f, st)
       PROVE  FALSE
  BY <1>1, <1>10, <1>13 DEF SysEnvSetStatus
<1> QED BY <1>3, <1>4, <1>5, <1>7, <1>9, <1>11, <1>12, <1>13 DEF NoBirth

\* A tick and a call of sys_reduce_priority() with a percentage below 100 leave
\* the environment at least one ticket and give it none.
LEMMA TickLeavesOne ==
  ASSUME NEW t \in 1 .. InitTickets PROVE Reduced(t) \in 1 .. InitTickets
BY TicketAssumption DEF Reduced

LEMMA CutLeavesOne ==
  ASSUME NEW t \in 1 .. InitTickets, NEW p \in 1 .. 99
  PROVE  t - Cut(t, p) \in 1 .. InitTickets
<1>1. InitTickets \in Nat /\ t \in Int /\ p \in Int
  BY TicketAssumption
<1>2. t * p \in Nat
  BY <1>1
<1>3. t * p <= t * 99
  BY <1>1
<1>4. t * p < 100 * t
  BY <1>1, <1>2, <1>3
<1> DEFINE x == t * p
           q == x \div 100
<1>5. x \in Nat /\ x < 100 * t
  BY <1>2, <1>4
<1> HIDE DEF x
<1>6. q \in Int /\ q >= 0 /\ q < t
  BY <1>1, <1>5
<1>7. Cut(t, p) = IF q > 0 THEN q ELSE t - 1
  BY DEF Cut, x
<1> HIDE DEF q
<1> QED BY <1>1, <1>6, <1>7

\* The inductive invariant: TicketsInRange with the type of tickets.
TicketInv == tickets \in [Env -> Nat] /\ TicketsInRange

\* The tickets stay in range where they are changed at most at curenv, and
\* there by one of the two reductions, or given anew.
LEMMA OldTickets ==
  ASSUME TypeOK, TicketInv, NEW f \in Env, f \in Alive,
         NEW v \in 1 .. InitTickets,
         \A e \in Env : status[e] = "FREE" => status'[e] = "FREE",
         UNCHANGED tickets \/ tickets' = [tickets EXCEPT ![f] = v]
  PROVE  TicketInv'
<1>1. InitTickets \in Nat /\ v \in Nat
  BY TicketAssumption
<1>2. tickets \in [Env -> Nat] /\ tickets' \in [Env -> Nat]
  BY <1>1 DEF TicketInv
<1>3. ASSUME NEW e \in Env, status'[e] # "FREE" PROVE tickets'[e] \in 1 .. InitTickets
  BY <1>1, <1>2, <1>3 DEF TicketInv, TicketsInRange, Alive
<1> QED BY <1>2, <1>3 DEF TicketInv, TicketsInRange, Alive

LEMMA SameTickets ==
  ASSUME TypeOK, TicketInv, UNCHANGED tickets,
         \A e \in Env : status[e] = "FREE" => status'[e] = "FREE"
  PROVE  TicketInv'
BY DEF TicketInv, TicketsInRange, Alive

LEMMA TimerTickets ==
  ASSUME TypeOK, OwnInv, TicketInv, NEW c \in Cpu, LotteryTimer(c),
         \A e \in Env : status[e] = "FREE" => status'[e] = "FREE"
  PROVE  TicketInv'
<1> DEFINE paid == IF Cur(c) = NoEnv THEN tickets
                   ELSE [tickets EXCEPT ![Cur(c)] = Reduced(@)]
<1>1. /\ Cur(c) = NoEnv \/ Dispatching(c)
      /\ \/ tickets' = paid
         \/ tickets' = [e \in Env |-> IF e \in Ready THEN InitTickets ELSE paid[e]]
  BY DEF LotteryTimer, Timer
<1>2. Cur(c) # NoEnv => Cur(c) \in Env /\ status[Cur(c)] = "RUNNING"
  BY <1>1, TrapRuns DEF OwnInv, Core
<1>3. Cur(c) # NoEnv => Reduced(tickets[Cur(c)]) \in 1 .. InitTickets
  BY <1>2, TickLeavesOne DEF TicketInv, TicketsInRange, Alive
<1>4. InitTickets \in Nat \ {0}
  BY TicketAssumption
<1>5. paid \in [Env -> Nat]
  BY <1>2, <1>3, <1>4 DEF TicketInv
<1>6. ASSUME NEW e \in Env, status[e] # "FREE" PROVE paid[e] \in 1 .. InitTickets
  BY <1>2, <1>3, <1>6 DEF TicketInv, TicketsInRange, Alive
<1> HIDE DEF paid
<1>7. tickets' \in [Env -> Nat]
  BY <1>1, <1>4, <1>5
<1>8. ASSUME NEW e \in Env, status'[e] # "FREE" PROVE tickets'[e] \in 1 .. InitTickets
  <2>1. paid[e] \in 1 .. InitTickets /\ InitTickets \in 1 .. InitTickets
    BY <1>4, <1>6, <1>8
  <2> QED BY <2>1, <1>1
<1> QED BY <1>7, <1>8 DEF TicketInv, TicketsInRange, Alive

LEMMA ReduceTickets ==
  ASSUME LibUsers, TypeOK, OwnInv, TicketInv, NEW c \in Cpu, NEW p \in Percents,
         SysReducePriority(c, p),
         \A e \in Env : status[e] = "FREE" => status'[e] = "FREE"
  PROVE  TicketInv'
<1> DEFINE f == Cur(c)
           v == tickets[f] - Cut(tickets[f], p)
<1>1. Dispatching(c) /\ p \in 1 .. 99 /\ tickets' = [tickets EXCEPT ![f] = v]
  BY DEF SysReducePriority
<1>2. f \in Env /\ f \in Alive
  BY <1>1, TrapRuns DEF OwnInv, Core, Alive
<1>3. tickets[f] \in 1 .. InitTickets
  BY <1>2 DEF TicketInv, TicketsInRange
<1>4. v \in 1 .. InitTickets
  BY <1>1, <1>3, CutLeavesOne
<1> HIDE DEF f, v
<1> QED BY <1>1, <1>2, <1>4, OldTickets

LEMMA ExoforkTickets ==
  ASSUME TypeOK, OwnInv, TicketInv, NEW c \in Cpu, LotteryExofork(c)
  PROVE  TicketInv'
<1> DEFINE h == Head(freeList)
<1>1. /\ tickets' = [tickets EXCEPT ![h] = InitTickets]
      /\ status' = [status EXCEPT ![h] = "NOT_RUNNABLE"]
      /\ SysExofork(c)
  BY DEF LotteryExofork, SysExofork, EnvAlloc
<1>2. h \in Env
  BY <1>1, FreeListPop DEF OwnInv, SysExofork, Status
<1>3. InitTickets \in Nat \ {0}
  BY TicketAssumption
<1> HIDE DEF h
<1>4. tickets' \in [Env -> Nat]
  BY <1>1, <1>2, <1>3 DEF TicketInv
<1>5. ASSUME NEW e \in Env, status'[e] # "FREE" PROVE tickets'[e] \in 1 .. InitTickets
  <2>1. CASE e = h
    BY <2>1, <1>1, <1>2, <1>3 DEF TicketInv
  <2>2. CASE e # h
    BY <2>2, <1>1, <1>5 DEF TicketInv, TicketsInRange, Alive, TypeOK
  <2> QED BY <2>1, <2>2
<1> QED BY <1>4, <1>5 DEF TicketInv, TicketsInRange, Alive

LEMMA TicketStep ==
  ASSUME LibUsers, TypeOK, OwnInv, TicketInv, [LotNext]_lotVars
  PROVE  TicketInv'
<1>1. CASE UNCHANGED lotVars
  BY <1>1, SameTickets DEF lotVars, tickVars, vars
<1>2. CASE LotNext
  <2>1. PICK c \in Cpu : \/ LotteryRun(c) \/ LotteryExofork(c) \/ LotteryDestroy(c)
                         \/ LotteryTimer(c) \/ LotteryOther(c)
                         \/ \E p \in Percents : SysReducePriority(c, p)
    BY <1>2 DEF LotNext
  <2>2. ASSUME NoBirth(c)
        PROVE  \A e \in Env : status[e] = "FREE" => status'[e] = "FREE"
    BY <2>2, FreeStaysFree DEF OwnInv, Core
  <2>3. CASE LotteryRun(c)
    BY <2>2, <2>3, RunsEligible, SameTickets DEF NoBirth, LotteryRun, tickVars
  <2>4. CASE LotteryExofork(c)
    BY <2>4, ExoforkTickets
  <2>5. CASE LotteryDestroy(c)
    <3>1. NoBirth(c) /\ UNCHANGED tickets
      BY <2>5 DEF LotteryDestroy, Forfeit, NoBirth
    <3> QED BY <3>1, <2>2, SameTickets
  <2>6. CASE LotteryTimer(c)
    <3>1. NoBirth(c)
      BY <2>6 DEF LotteryTimer, NoBirth
    <3> QED BY <3>1, <2>2, <2>6, TimerTickets
  <2>7. CASE LotteryOther(c)
    <3>1. NoBirth(c) /\ UNCHANGED tickets
      BY <2>7 DEF LotteryOther, NoBirth, tickVars
    <3> QED BY <3>1, <2>2, SameTickets
  <2>8. ASSUME NEW p \in Percents, SysReducePriority(c, p) PROVE TicketInv'
    <3>1. NoBirth(c)
      BY <2>8 DEF SysReducePriority, Fault, NoBirth
    <3> QED BY <3>1, <2>2, <2>8, ReduceTickets
  <2> QED BY <2>1, <2>3, <2>4, <2>5, <2>6, <2>7, <2>8
<1> QED BY <1>1, <1>2

LEMMA InitTicketsOK == LotInit => TicketInv
<1> SUFFICES ASSUME LotInit PROVE TicketInv
  OBVIOUS
<1>1. InitTickets \in Nat \ {0}
  BY TicketAssumption
<1>2. \A e \in Env : status[e] # "FREE" => e < NInit
  BY DEF LotInit, Init
<1>3. tickets = [e \in Env |-> IF e < NInit THEN InitTickets ELSE 0]
  BY DEF LotInit
<1>4. \A e \in Env : e < NInit => tickets[e] = InitTickets
  BY <1>3
<1>5. tickets \in [Env -> Nat]
  BY <1>1, <1>3
<1> QED BY <1>1, <1>2, <1>4, <1>5 DEF TicketInv, TicketsInRange, Alive

LEMMA TicketAlways == ASSUME LibUsers PROVE LotSpec => []TicketInv
<1>1. LotInit => TicketInv
  BY InitTicketsOK
<1>2. TypeOK /\ OwnInv /\ TicketInv /\ [LotNext]_lotVars => TicketInv'
  BY TicketStep
<1>3. LotSpec => Spec
  BY LotteryImplements DEF ImplementsKernel
<1> QED BY <1>1, <1>2, <1>3, OwnAlways, PTL DEF LotSpec

\* Every existing environment holds at least one ticket, so none is excluded
\* from the draw for good, and at most what it was given: whatever the number
\* of processors, the decay, the boost interval and the percentages, as long as
\* the programs pass sys_reduce_priority() a percentage from 1 to 99.
THEOREM TicketsCorrect == ASSUME LibUsers PROVE LotSpec => []TicketsInRange
BY TicketAlways, PTL DEF TicketInv

-----------------------------------------------------------------------------
(* Sums of tickets.                                                        *)

\* Among the subsets of a finite set that fail some test, one has no smaller
\* subset that fails it.
LEMMA SmallestSet ==
  ASSUME NEW U, IsFiniteSet(U), NEW F \in SUBSET (SUBSET U), F # {}
  PROVE  \E T \in F : \A V \in F : V \subseteq T => V = T
<1>1. F \subseteq FiniteSubsetsOf(U)
  BY FS_Subset DEF FiniteSubsetsOf
<1>2. PICK T \in F : \A V \in F : <<V, T>> \notin StrictSubsetOrdering(U)
  BY <1>1, FS_StrictSubsetOrderingWellFounded, WFMin
<1> QED BY <1>2 DEF StrictSubsetOrdering

Pick(s) == CHOOSE x \in s : TRUE

\* f is the sum of t over each subset of U.
Sums(t, U, f) ==
  f = [s \in SUBSET U |-> IF s = {} THEN 0 ELSE t[Pick(s)] + f[s \ {Pick(s)}]]

LEMMA PickIn == ASSUME NEW s, s # {} PROVE Pick(s) \in s
BY DEF Pick

LEMMA SumsApply ==
  ASSUME NEW t, NEW U, NEW f, Sums(t, U, f), NEW s \in SUBSET U
  PROVE  f[s] = IF s = {} THEN 0 ELSE t[Pick(s)] + f[s \ {Pick(s)}]
<1> DEFINE G(r) == IF r = {} THEN 0 ELSE t[Pick(r)] + f[r \ {Pick(r)}]
<1>1. f = [r \in SUBSET U |-> G(r)]
  BY DEF Sums
<1> HIDE DEF G
<1>2. f[s] = G(s)
  BY <1>1
<1> QED BY <1>2 DEF G

\* The sums over the subsets of a set are those over the subsets of a larger one.
LEMMA SumsAgree ==
  ASSUME NEW t, NEW U, IsFiniteSet(U), NEW V \in SUBSET U,
         NEW f, Sums(t, U, f), NEW g, Sums(t, V, g)
  PROVE  \A s \in SUBSET V : f[s] = g[s]
<1> DEFINE F == {s \in SUBSET V : f[s] # g[s]}
<1>1. SUFFICES ASSUME F # {} PROVE FALSE
  OBVIOUS
<1>2. IsFiniteSet(V) /\ F \in SUBSET (SUBSET V)
  BY FS_Subset
<1>3. PICK s \in F : \A r \in F : r \subseteq s => r = s
  <2> HIDE DEF F
  <2> QED BY <1>1, <1>2, SmallestSet
<1>4. s \in SUBSET V /\ s \in SUBSET U /\ f[s] # g[s]
  OBVIOUS
<1>5. f[s] = (IF s = {} THEN 0 ELSE t[Pick(s)] + f[s \ {Pick(s)}])
  BY <1>4, SumsApply
<1>6. g[s] = (IF s = {} THEN 0 ELSE t[Pick(s)] + g[s \ {Pick(s)}])
  BY <1>4, SumsApply
<1>7. s # {}
  BY <1>4, <1>5, <1>6
<1>8. Pick(s) \in s
  BY <1>7, PickIn
<1>9. f[s \ {Pick(s)}] = g[s \ {Pick(s)}]
  <2>1. s \ {Pick(s)} \in SUBSET V /\ s \ {Pick(s)} \subseteq s /\ s \ {Pick(s)} # s
    BY <1>4, <1>8
  <2> QED BY <2>1, <1>3
<1> QED BY <1>4, <1>5, <1>6, <1>9

SumOver(t, U) == (CHOOSE f : Sums(t, U, f))[U]

LEMMA SumIs == ASSUME NEW t, NEW U PROVE SumFunctionOnSet(t, U) = SumOver(t, U)
BY DEF SumFunctionOnSet, FoldFunctionOnSet, MapThenFoldSet, SumOver, Sums, Pick

\* The sums over the subsets of a finite set exist: of a smallest set for which
\* they did not, the smaller subsets would have theirs.
LEMMA SumsExist ==
  ASSUME NEW t, NEW U, IsFiniteSet(U) PROVE \E f : Sums(t, U, f)
<1> DEFINE F == {V \in SUBSET U : ~\E f : Sums(t, V, f)}
<1>1. SUFFICES ASSUME F # {} PROVE FALSE
  OBVIOUS
<1>2. F \in SUBSET (SUBSET U)
  OBVIOUS
<1>3. PICK V \in F : \A r \in F : r \subseteq V => r = V
  <2> HIDE DEF F
  <2> QED BY <1>1, <1>2, SmallestSet
<1>4. V \in SUBSET U /\ ~(\E f : Sums(t, V, f))
  OBVIOUS
<1>5. IsFiniteSet(V)
  BY <1>4, FS_Subset
<1> DEFINE Of(W) == CHOOSE f : Sums(t, W, f)
<1>6. ASSUME NEW W \in SUBSET V, W # V PROVE Sums(t, W, Of(W))
  <2>1. W \notin F
    BY <1>3, <1>6
  <2>2. W \in SUBSET U
    BY <1>4
  <2>3. \E f : Sums(t, W, f)
    BY <2>1, <2>2
  <2> QED BY <2>3
<1> HIDE DEF F, Of
<1> DEFINE less(s) == s \ {Pick(s)}
           G(s) == IF s = {} THEN 0 ELSE t[Pick(s)] + Of(less(s))[less(s)]
           g == [s \in SUBSET V |-> G(s)]
<1>7. \A s \in SUBSET V : s # {} => less(s) \in SUBSET V /\ less(s) # V /\ less(s) # s
  BY PickIn
<1> HIDE DEF less
<1>8. ASSUME NEW s \in SUBSET V, s # {} PROVE g[less(s)] = Of(less(s))[less(s)]
  <2> DEFINE w == less(s)
  <2>1. w \in SUBSET V /\ w # V
    BY <1>7, <1>8
  <2> HIDE DEF w
  <2>2. Sums(t, w, Of(w)) /\ IsFiniteSet(w)
    BY <2>1, <1>5, <1>6, FS_Subset
  <2>3. Of(w)[w] = (IF w = {} THEN 0 ELSE t[Pick(w)] + Of(w)[less(w)])
    BY <2>2, SumsApply DEF less
  <2>4. ASSUME w # {} PROVE Of(w)[less(w)] = Of(less(w))[less(w)]
    <3>1. less(w) \in SUBSET w /\ less(w) \in SUBSET V /\ less(w) # V
      BY <2>1, <2>4, <1>7 DEF less
    <3>2. Sums(t, less(w), Of(less(w)))
      BY <3>1, <1>6
    <3> QED BY <3>1, <3>2, <2>2, SumsAgree
  <2>5. g[w] = G(w)
    <3> HIDE DEF G
    <3> QED BY <2>1
  <2> HIDE DEF g
  <2>6. g[w] = Of(w)[w]
    BY <2>3, <2>4, <2>5
  <2> QED BY <2>6 DEF w
<1>9. Sums(t, V, g)
  <2> DEFINE H(s) == IF s = {} THEN 0 ELSE t[Pick(s)] + g[less(s)]
  <2>1. \A s \in SUBSET V : G(s) = H(s)
    <3> HIDE DEF g
    <3> QED BY <1>8
  <2>2. g = [s \in SUBSET V |-> G(s)]
    OBVIOUS
  <2> HIDE DEF g, G, H
  <2>3. g = [s \in SUBSET V |-> H(s)]
    BY <2>1, <2>2
  <2> QED BY <2>3 DEF Sums, H, less
<1> QED BY <1>9, <1>4

\* A sum with its first element apart.
LEMMA SumFirst ==
  ASSUME NEW t, NEW U, IsFiniteSet(U), U # {}
  PROVE  SumOver(t, U) = t[Pick(U)] + SumOver(t, U \ {Pick(U)})
<1> DEFINE f == CHOOSE h : Sums(t, U, h)
           W == U \ {Pick(U)}
           g == CHOOSE h : Sums(t, W, h)
<1>1. W \in SUBSET U /\ IsFiniteSet(W)
  BY FS_Subset
<1>2. Sums(t, U, f)
  BY SumsExist
<1>3. Sums(t, W, g)
  <2> HIDE DEF W
  <2> QED BY <1>1, SumsExist
<1>4. SumOver(t, U) = f[U] /\ SumOver(t, W) = g[W]
  BY DEF SumOver
<1> HIDE DEF f, g
<1>5. f[U] = t[Pick(U)] + f[W]
  BY <1>2, SumsApply
<1>6. f[W] = g[W]
  <2> HIDE DEF W
  <2> QED BY <1>1, <1>2, <1>3, SumsAgree
<1> QED BY <1>4, <1>5, <1>6

LEMMA SumEmpty == ASSUME NEW t PROVE SumOver(t, {}) = 0
<1> DEFINE f == CHOOSE h : Sums(t, {}, h)
<1>1. Sums(t, {}, f)
  BY SumsExist, FS_EmptySet
<1>2. SumOver(t, {}) = f[{}]
  BY DEF SumOver
<1> HIDE DEF f
<1> QED BY <1>1, <1>2, SumsApply

\* A sum with any element apart.
LEMMA SumAny ==
  ASSUME NEW t, NEW U, IsFiniteSet(U), \A x \in U : t[x] \in Int
  PROVE  /\ SumOver(t, U) \in Int
         /\ \A x \in U : SumOver(t, U) = t[x] + SumOver(t, U \ {x})
<1> DEFINE Bad(V) == ~ /\ SumOver(t, V) \in Int
                       /\ \A x \in V : SumOver(t, V) = t[x] + SumOver(t, V \ {x})
           F == {V \in SUBSET U : Bad(V)}
<1>1. SUFFICES ASSUME F # {} PROVE FALSE
  <2> HIDE DEF Bad
  <2>1. U \in SUBSET U /\ ~Bad(U)
    BY <1>1
  <2> QED BY <2>1 DEF Bad
<1>2. F \in SUBSET (SUBSET U)
  OBVIOUS
<1>3. PICK V \in F : \A r \in F : r \subseteq V => r = V
  <2> HIDE DEF F
  <2> QED BY <1>1, <1>2, SmallestSet
<1>4. V \in SUBSET U /\ Bad(V) /\ IsFiniteSet(V)
  BY FS_Subset
<1>5. ASSUME NEW W \in SUBSET V, W # V PROVE ~Bad(W)
  BY <1>3, <1>4, <1>5
<1> HIDE DEF F
<1>6. V # {}
  BY <1>4, SumEmpty
<1> DEFINE p == Pick(V)
<1>7. p \in V /\ p \in U
  BY <1>4, <1>6, PickIn
<1>8. SumOver(t, V) = t[p] + SumOver(t, V \ {p})
  BY <1>4, <1>6, SumFirst
<1> HIDE DEF p
<1>9. SumOver(t, V) \in Int
  <2>1. SumOver(t, V \ {p}) \in Int
    BY <1>5, <1>7
  <2> QED BY <2>1, <1>7, <1>8
<1>10. ASSUME NEW x \in V PROVE SumOver(t, V) = t[x] + SumOver(t, V \ {x})
  <2>1. CASE x = p
    BY <2>1, <1>8
  <2>2. CASE x # p
    <3>1. /\ SumOver(t, V \ {p}) = t[x] + SumOver(t, (V \ {p}) \ {x})
          /\ SumOver(t, V \ {x}) = t[p] + SumOver(t, (V \ {x}) \ {p})
      <4>1. ~Bad(V \ {p}) /\ ~Bad(V \ {x})
        BY <1>5, <1>7
      <4>2. x \in V \ {p} /\ p \in V \ {x}
        BY <2>2, <1>7
      <4> QED BY <4>1, <4>2
    <3>2. (V \ {p}) \ {x} = (V \ {x}) \ {p}
      OBVIOUS
    <3>3. SumOver(t, (V \ {p}) \ {x}) \in Int
      <4>1. (V \ {p}) \ {x} \in SUBSET V /\ (V \ {p}) \ {x} # V
        BY <1>7
      <4> QED BY <4>1, <1>5
    <3>4. t[x] \in Int /\ t[p] \in Int
      BY <1>4, <1>7
    <3> DEFINE A == (V \ {p}) \ {x}
               B == (V \ {x}) \ {p}
               P == V \ {p}
               X == V \ {x}
    <3>5. A = B /\ SumOver(t, P) = t[x] + SumOver(t, A) /\ SumOver(t, X) = t[p] + SumOver(t, B)
          /\ SumOver(t, A) \in Int /\ SumOver(t, V) = t[p] + SumOver(t, P)
      BY <3>1, <3>2, <3>3, <1>8
    <3> HIDE DEF A, B, P
    <3>6. SumOver(t, V) = t[x] + SumOver(t, X)
      <4> HIDE DEF X
      <4> QED BY <3>4, <3>5
    <3> QED BY <3>6
  <2> QED BY <2>1, <2>2
<1>11. \A x \in V : SumOver(t, V) = t[x] + SumOver(t, V \ {x})
  BY <1>10
<1>12. ~Bad(V)
  BY <1>9, <1>11
<1> HIDE DEF Bad
<1> QED BY <1>4, <1>12

\* A sum that differs in one place, or that has one element more.
LEMMA SumSame ==
  ASSUME NEW t, NEW u, NEW U, IsFiniteSet(U), \A x \in U : t[x] \in Int /\ u[x] = t[x]
  PROVE  SumOver(u, U) = SumOver(t, U)
<1> DEFINE F == {V \in SUBSET U : SumOver(u, V) # SumOver(t, V)}
<1>1. SUFFICES ASSUME F # {} PROVE FALSE
  OBVIOUS
<1>2. F \in SUBSET (SUBSET U)
  OBVIOUS
<1>3. PICK V \in F : \A r \in F : r \subseteq V => r = V
  <2> HIDE DEF F
  <2> QED BY <1>1, <1>2, SmallestSet
<1>4. V \in SUBSET U /\ SumOver(u, V) # SumOver(t, V) /\ IsFiniteSet(V)
  BY FS_Subset
<1>5. V # {}
  BY <1>4, SumEmpty
<1> DEFINE p == Pick(V)
<1>6. p \in V /\ p \in U
  BY <1>4, <1>5, PickIn
<1>7. /\ SumOver(t, V) = t[p] + SumOver(t, V \ {p})
      /\ SumOver(u, V) = u[p] + SumOver(u, V \ {p})
  BY <1>4, <1>5, SumFirst
<1> HIDE DEF p
<1>8. SumOver(u, V \ {p}) = SumOver(t, V \ {p})
  BY <1>3, <1>4, <1>6
<1> QED BY <1>4, <1>6, <1>7, <1>8

LEMMA SumAdd ==
  ASSUME NEW t, NEW U, IsFiniteSet(U), NEW x, x \notin U, \A y \in U \cup {x} : t[y] \in Int
  PROVE  SumOver(t, U \cup {x}) = t[x] + SumOver(t, U)
<1> DEFINE V == U \cup {x}
<1>1. IsFiniteSet(V) /\ x \in V /\ V \ {x} = U
  BY FS_AddElement
<1> HIDE DEF V
<1>2. SumOver(t, V) = t[x] + SumOver(t, V \ {x})
  BY <1>1, SumAny DEF V
<1> QED BY <1>1, <1>2 DEF V

LEMMA SumChange ==
  ASSUME NEW t, NEW U, IsFiniteSet(U), NEW x \in U, NEW u,
         \A y \in U : t[y] \in Int /\ u[y] \in Int, \A y \in U \ {x} : u[y] = t[y]
  PROVE  SumOver(u, U) - u[x] = SumOver(t, U) - t[x]
<1> DEFINE W == U \ {x}
<1>1. IsFiniteSet(W) /\ \A y \in W : t[y] \in Int /\ u[y] = t[y]
  BY FS_RemoveElement
<1>2. SumOver(t, U) = t[x] + SumOver(t, W) /\ SumOver(u, U) = u[x] + SumOver(u, W)
  BY SumAny
<1> HIDE DEF W
<1>3. SumOver(u, W) = SumOver(t, W) /\ SumOver(t, W) \in Int
  BY <1>1, SumSame, SumAny
<1> QED BY <1>2, <1>3

\* A sum of equal terms.
LEMMA SumConst ==
  ASSUME NEW t, NEW k \in Nat, NEW U, IsFiniteSet(U), \A x \in U : t[x] = k
  PROVE  SumOver(t, U) = k * Cardinality(U)
<1> DEFINE F == {V \in SUBSET U : SumOver(t, V) # k * Cardinality(V)}
<1>1. SUFFICES ASSUME F # {} PROVE FALSE
  OBVIOUS
<1>2. F \in SUBSET (SUBSET U)
  OBVIOUS
<1>3. PICK V \in F : \A r \in F : r \subseteq V => r = V
  <2> HIDE DEF F
  <2> QED BY <1>1, <1>2, SmallestSet
<1>4. V \in SUBSET U /\ SumOver(t, V) # k * Cardinality(V) /\ IsFiniteSet(V)
  BY <1>3, FS_Subset
<1>5. V # {}
  <2>1. k * Cardinality({}) = 0
    BY FS_EmptySet
  <2> QED BY <2>1, <1>4, SumEmpty
<1>6. PICK p \in V : TRUE
  BY <1>5
<1> DEFINE W == V \ {p}
<1>7. W \in SUBSET V /\ W # V /\ W \in SUBSET U
  BY <1>4, <1>6
<1>8. SumOver(t, W) = k * Cardinality(W)
  BY <1>3, <1>7
<1>9. SumOver(t, V) = t[p] + SumOver(t, W) /\ t[p] = k
  BY <1>4, <1>6, SumAny
<1>10. /\ Cardinality(V) = Cardinality(W) + 1 /\ Cardinality(W) \in Nat
  <2>1. IsFiniteSet(W) /\ Cardinality(W) = Cardinality(V) - 1
    BY <1>4, <1>6, FS_RemoveElement
  <2>2. Cardinality(W) \in Nat /\ Cardinality(V) \in Nat
    BY <2>1, <1>4, FS_CardinalityType
  <2> QED BY <2>1, <2>2
<1>11. k * Cardinality(V) = k + k * Cardinality(W)
  <2> DEFINE n == Cardinality(W)
  <2> HIDE DEF n
  <2>1. k * (n + 1) = k + k * n
    BY <1>10 DEF n
  <2> QED BY <2>1, <1>10 DEF n
<1> HIDE DEF W
<1> QED BY <1>4, <1>8, <1>9, <1>11

\* More elements give no smaller sum, when none is negative.
LEMMA SumGrows ==
  ASSUME NEW t, NEW U, IsFiniteSet(U), \A x \in U : t[x] \in Nat, NEW V \in SUBSET U
  PROVE  SumOver(t, V) <= SumOver(t, U) /\ SumOver(t, V) \in Nat
<1>1. ASSUME NEW W \in SUBSET U PROVE SumOver(t, W) \in Int /\ IsFiniteSet(W)
  BY FS_Subset, SumAny
<1> DEFINE F == {W \in SUBSET U : ~ /\ V \subseteq W => SumOver(t, V) <= SumOver(t, W)
                                    /\ 0 <= SumOver(t, W)}
<1>2. F = {}
  <2>1. SUFFICES ASSUME F # {} PROVE FALSE
    OBVIOUS
  <2>2. PICK W \in F : \A r \in F : r \subseteq W => r = W
    <3>1. F \in SUBSET (SUBSET U)
      OBVIOUS
    <3> HIDE DEF F
    <3> QED BY <2>1, <3>1, SmallestSet
  <2>3. W \in SUBSET U /\ ~ /\ V \subseteq W => SumOver(t, V) <= SumOver(t, W)
                            /\ 0 <= SumOver(t, W)
    BY <2>2
  <2>4. ASSUME NEW x \in W, V \subseteq W \ {x} \/ ~(V \subseteq W) \/ SumOver(t, V) <= SumOver(t, W)
        PROVE  FALSE
    <3>1. W \ {x} \in SUBSET U /\ W \ {x} \notin F
      BY <2>2, <2>4
    <3>2. /\ V \subseteq W \ {x} => SumOver(t, V) <= SumOver(t, W \ {x})
          /\ 0 <= SumOver(t, W \ {x})
      BY <3>1
    <3>3. SumOver(t, W) = t[x] + SumOver(t, W \ {x}) /\ t[x] \in Nat
      <4>1. x \in U /\ \A y \in W : t[y] \in Int
        BY <2>3, <2>4
      <4> QED BY <4>1, <2>3, <1>1, SumAny
    <3> DEFINE a == SumOver(t, W \ {x})
               b == SumOver(t, V)
               c == SumOver(t, W)
    <3>4. a \in Int /\ b \in Int /\ c = t[x] + a /\ t[x] \in Nat /\ 0 <= a
          /\ (V \subseteq W \ {x} => b <= a)
      BY <3>1, <3>2, <3>3, <1>1
    <3>5. ~((V \subseteq W => b <= c) /\ 0 <= c)
      BY <2>3
    <3> HIDE DEF a
    <3>6. V \subseteq W \ {x} \/ ~(V \subseteq W) \/ b <= c
      BY <2>4
    <3> HIDE DEF b, c
    <3> QED BY <3>4, <3>5, <3>6
  <2>5. CASE W = {}
    <3>1. SumOver(t, W) = 0 /\ V \subseteq W => V = W
      BY <2>5, SumEmpty
    <3> QED BY <3>1, <2>3, <2>5, SumEmpty
  <2>6. CASE W # {}
    <3>1. CASE V = W
      <4>1. SumOver(t, V) <= SumOver(t, W)
        BY <3>1, <1>1
      <4> QED BY <4>1, <2>4, <2>6
    <3>2. CASE V # W
      <4>1. PICK x \in W : V \subseteq W => x \notin V
        BY <3>2, <2>6
      <4>2. V \subseteq W \ {x} \/ ~(V \subseteq W)
        BY <4>1
      <4> QED BY <4>2, <2>4
    <3> QED BY <3>1, <3>2
  <2> QED BY <2>5, <2>6
<1>3. U \in SUBSET U /\ V \in SUBSET U /\ U \notin F /\ V \notin F
  <2> HIDE DEF F
  <2> QED BY <1>2
<1>4. SumOver(t, V) <= SumOver(t, U) /\ 0 <= SumOver(t, V)
  BY <1>3
<1> QED BY <1>1, <1>4

-----------------------------------------------------------------------------
(* The draw.                                                               *)

LEMMA TimesGrows ==
  ASSUME NEW a \in Nat, NEW b \in Nat, NEW m \in Nat, a <= b PROVE a * m <= b * m
<1>1. b * m = a * m + (b - a) * m
  OBVIOUS
<1>2. b - a \in Nat
  OBVIOUS
<1>3. (b - a) * m >= 0 /\ a * m \in Int /\ (b - a) * m \in Int
  BY <1>2
<1> QED BY <1>1, <1>3

\* A quotient from its bounds.
LEMMA Quotient ==
  ASSUME NEW x \in Nat, NEW m \in Nat \ {0}, NEW b \in Nat, b * m <= x, x < b * m + m
  PROVE  x \div m = b
<1> DEFINE q == x \div m
<1>1. q \in Nat /\ q * m <= x /\ x < q * m + m
  BY SMTT(20)
<1> HIDE DEF q
<1>2. ASSUME q + 1 <= b PROVE FALSE
  BY <1>1, <1>2, TimesGrows, (q + 1) * m = q * m + m, q + 1 \in Nat
<1>3. ASSUME b + 1 <= q PROVE FALSE
  BY <1>1, <1>3, TimesGrows, (b + 1) * m = b * m + m, b + 1 \in Nat
<1> QED BY <1>1, <1>2, <1>3 DEF q

\* As long as the products of the draw fit in a word, it takes every value below the total.
LEMMA DrawReaches ==
  ASSUME NEW b \in Nat \ {0}, total \in Nat, b < total,
         total <= RandM, total * RandM <= Word
  PROVE  \E r \in 0 .. RandM - 1 : Draw(r) = b
<1> DEFINE T == {r \in Nat : b * RandM <= r * total}
           y == b * RandM
           z == total * RandM
<1>1. RandM \in Nat \ {0} /\ Word \in Nat \ {0} /\ y \in Nat /\ z \in Nat
  BY TicketAssumption
<1>2. y >= 1 /\ y + RandM <= z
  <2>1. 1 * RandM <= y
    BY <1>1, TimesGrows
  <2>2. (b + 1) * RandM <= z
    BY <1>1, TimesGrows
  <2>3. (b + 1) * RandM = y + RandM
    BY <1>1
  <2> QED BY <1>1, <2>1, <2>2, <2>3
<1>3. RandM \in T
  <2>1. RandM * total = z
    BY <1>1
  <2> QED BY <2>1, <1>1, <1>2
<1>4. PICK r \in T : \A s \in T : r =< s
  <2>1. T \in SUBSET Nat /\ T # {}
    BY <1>3
  <2> HIDE DEF T
  <2> QED BY <2>1, LeastNat
<1> DEFINE x == r * total
<1>5. r \in Nat /\ x \in Nat /\ y <= x
  BY <1>4
<1>6. r >= 1 /\ x - total < y
  <2>1. ASSUME r = 0 PROVE FALSE
    <3>1. x = 0
      BY <2>1
    <3> HIDE DEF x, y
    <3> QED BY <3>1, <1>1, <1>2, <1>5
  <2>2. r - 1 \in Nat /\ r - 1 \notin T
    BY <2>1, <1>4, <1>5
  <2>3. ~(y <= (r - 1) * total)
    BY <2>2
  <2>4. (r - 1) * total = x - total
    BY <1>5
  <2> QED BY <2>1, <2>3, <2>4, <1>1, <1>5
<1> HIDE DEF T, y
<1>7. x < z /\ x < y + RandM
  BY <1>1, <1>2, <1>5, <1>6
<1>8. r \in 0 .. RandM - 1
  <2>1. ASSUME RandM <= r PROVE FALSE
    <3>1. RandM * total <= x
      BY <2>1, <1>1, <1>5, TimesGrows
    <3>2. RandM * total = z
      BY <1>1
    <3> QED BY <3>1, <3>2, <1>1, <1>5, <1>7
  <2> QED BY <2>1, <1>1, <1>5
<1>9. x % Word = x
  <2> HIDE DEF x
  <2>1. x < Word
    BY <1>1, <1>5, <1>7
  <2> QED BY <2>1, <1>1, <1>5
<1>10. x \div RandM = b
  BY <1>1, <1>5, <1>7, Quotient DEF y
<1>11. Draw(r) = b
  BY <1>9, <1>10 DEF Draw
<1> QED BY <1>8, <1>11

\* It takes no other value, and 0 is one of them.
LEMMA DrawBelow ==
  ASSUME total \in Nat, total * RandM <= Word, NEW r \in 0 .. RandM - 1
  PROVE  Draw(r) \in Nat /\ (Draw(r) = 0 \/ Draw(r) < total) /\ Draw(0) = 0
<1> DEFINE x == r * total
           z == total * RandM
           q == x \div RandM
<1>1. RandM \in Nat \ {0} /\ Word \in Nat \ {0} /\ r \in Nat /\ x \in Nat /\ z \in Nat
  BY TicketAssumption
<1>2. x + total <= z
  <2>1. (r + 1) * total <= RandM * total
    BY <1>1, TimesGrows
  <2>2. (r + 1) * total = x + total /\ RandM * total = z
    BY <1>1
  <2> QED BY <2>1, <2>2
<1>3. Draw(0) = 0
  <2>1. 0 * total = 0 /\ 0 % Word = 0 /\ 0 \div RandM = 0
    BY <1>1
  <2> QED BY <2>1 DEF Draw
<1>4. CASE total = 0
  <2>1. r * total = 0
    BY <1>4, <1>1
  <2>2. Draw(r) = Draw(0)
    BY <2>1, <1>4 DEF Draw
  <2> QED BY <2>2, <1>3
<1>5. CASE total > 0
  <2>1. x % Word = x
    <3> HIDE DEF x
    <3> QED BY <1>1, <1>2, <1>5
  <2>2. Draw(r) = q
    BY <2>1 DEF Draw
  <2>3. q \in Nat /\ q * RandM <= x
    <3> HIDE DEF x
    <3> QED BY <1>1, SMTT(20)
  <2> HIDE DEF q
  <2>4. ASSUME total <= q PROVE FALSE
    <3>1. z <= q * RandM
      BY <2>3, <2>4, <1>1, TimesGrows
    <3>2. q * RandM \in Int
      BY <2>3, <1>1
    <3> HIDE DEF x, z
    <3> QED BY <3>1, <3>2, <2>3, <1>1, <1>2, <1>5
  <2> QED BY <2>2, <2>3, <2>4, <1>3
<1> QED BY <1>4, <1>5

LEMMA EnvFinite == IsFiniteSet(Env)
BY FS_Interval, SizeAssumption DEF Env

\* The scan stops at e exactly when the number drawn is more than what the slots
\* before e hold and at most what those up to e do; and at the first one for 0.
LEMMA ScanStops ==
  ASSUME tickets \in [Env -> Nat], NEW S \in SUBSET Env,
         \A x \in S : tickets[x] >= 1, NEW e \in S
  PROVE  /\ Held({d \in S : d < e}) \in Nat
         /\ Scan(S, Held({d \in S : d < e}) + 1) = e
         /\ (\A d \in S : e <= d) => Scan(S, 0) = e
         /\ \A w \in Nat : Scan(S, w) = e =>
              (\A d \in S : e <= d) \/ Held({d \in S : d < e}) < w
<1> DEFINE upTo(x) == {d \in S : d <= x}
           below(x) == {d \in S : d < x}
           reached(w) == {x \in S : Held(upTo(x)) >= w}
<1>1. IsFiniteSet(S) /\ \A x \in S : x \in Int /\ tickets[x] \in Nat \ {0}
  <2>1. IsFiniteSet(S)
    BY EnvFinite, FS_Subset
  <2>2. ASSUME NEW x \in S PROVE x \in Int /\ tickets[x] \in Nat \ {0}
    <3>1. x \in Env /\ x \in Int /\ tickets[x] \in Nat /\ tickets[x] >= 1
      BY <2>2 DEF Env
    <3> QED BY <3>1
  <2> QED BY <2>1, <2>2
<1>2. ASSUME NEW V \in SUBSET S PROVE IsFiniteSet(V)
  BY <1>1, <1>2, FS_Subset
<1>3. ASSUME NEW V \in SUBSET S, NEW W \in SUBSET V
      PROVE  Held(W) <= Held(V) /\ Held(W) \in Nat
  BY <1>1, <1>2, <1>3, SumGrows, SumIs DEF Held
<1>4. Held(upTo(e)) = tickets[e] + Held(below(e))
  <2>1. below(e) \cup {e} = upTo(e) /\ e \notin below(e) /\ below(e) \in SUBSET S
    BY <1>1
  <2> HIDE DEF below, upTo
  <2> QED BY <2>1, <1>1, <1>2, SumAdd, SumIs DEF Held
<1>5. /\ \A x \in S : upTo(x) \in SUBSET S
      /\ below(e) \in SUBSET S
      /\ \A x \in S : x < e => upTo(x) \in SUBSET below(e)
  BY <1>1
<1>6. /\ Held(below(e)) \in Nat
      /\ \A x \in S : Held(upTo(x)) \in Nat
      /\ \A x \in S : x < e => Held(upTo(x)) <= Held(below(e))
  <2> HIDE DEF below, upTo
  <2> QED BY <1>3, <1>5
\* The smallest of the slots reached is the winner.
<1>7. ASSUME NEW w \in Nat, e \in reached(w), \A x \in reached(w) : e <= x
      PROVE  Scan(S, w) = e
  <2>1. Min(reached(w)) = e
    <3>1. \A x \in reached(w) : x \in Int
      BY <1>1
    <3> HIDE DEF reached
    <3> QED BY <3>1, <1>7 DEF Min
  <2> QED BY <2>1, <1>7 DEF Scan
<1>8. Scan(S, Held(below(e)) + 1) = e
  <2> DEFINE b == Held(below(e))
  <2>1. b + 1 \in Nat /\ Held(upTo(e)) >= b + 1
    <3> HIDE DEF below, upTo
    <3> QED BY <1>1, <1>4, <1>6
  <2>2. ASSUME NEW x \in S, Held(upTo(x)) >= b + 1 PROVE e <= x
    <3>1. ~(x < e)
      <4> HIDE DEF below, upTo
      <4> QED BY <2>2, <1>6
    <3> QED BY <3>1, <1>1
  <2> HIDE DEF b
  <2>3. e \in reached(b + 1) /\ \A x \in reached(b + 1) : e <= x
    BY <2>1, <2>2
  <2>4. Scan(S, b + 1) = e
    BY <2>1, <2>3, <1>7
  <2> QED BY <2>4 DEF b
<1>9. ASSUME \A d \in S : e <= d PROVE Scan(S, 0) = e
  <2>1. Held(upTo(e)) >= 0
    <3> HIDE DEF upTo
    <3> QED BY <1>6
  <2>2. e \in reached(0) /\ \A x \in reached(0) : e <= x
    BY <2>1, <1>9
  <2> HIDE DEF reached
  <2> QED BY <2>2, <1>7
<1>10. ASSUME NEW w \in Nat, Scan(S, w) = e, ~(\A d \in S : e <= d), w <= Held(below(e))
       PROVE  FALSE
  <2>1. below(e) \in SUBSET Env /\ below(e) # {}
    BY <1>10, <1>1
  <2>2. PICK m \in below(e) : \A y \in below(e) : m >= y
    <3> HIDE DEF below
    <3> QED BY <2>1, FirstAndLastSlot
  <2>3. upTo(m) = below(e) /\ m \in S /\ m < e
    BY <2>2, <1>1
  <2>4. m \in reached(w)
    BY <2>3, <1>10
  <2>5. reached(w) \in SUBSET Env /\ \A y \in reached(w) : y \in Int
    BY <1>1
  <2> DEFINE R == reached(w)
  <2>6. Scan(S, w) = Min(R)
    BY <2>4 DEF Scan
  <2> HIDE DEF R, reached, upTo, below
  <2>7. PICK x \in R : \A y \in R : x =< y
    BY <2>4, <2>5, FirstAndLastSlot DEF R
  <2>8. Min(R) = x
    BY <2>5, <2>7 DEF Min, R
  <2>9. x <= m /\ x = e
    BY <2>4, <2>6, <2>7, <2>8, <1>10 DEF R
  <2> QED BY <2>9, <2>3, <1>1
<1>11. \A w \in Nat : Scan(S, w) = e => (\A d \in S : e <= d) \/ Held(below(e)) < w
  <2> HIDE DEF below
  <2> QED BY <1>6, <1>10
<1> QED BY <1>6, <1>8, <1>9, <1>11

-----------------------------------------------------------------------------
(* total_tickets.                                                          *)

\* The steps of processor c that neither make nor free an environment.
Keeps(c) ==
  \/ TrapFromUser(c) \/ TrapFromHalt(c) \/ Acquire(c) \/ Leave(c)
  \/ SchedIdle(c) \/ Stopped(c)
  \/ Timer(c) \/ SysYield(c) \/ Harmless(c) \/ Breakpoint(c) \/ Overflow(c)
  \/ SysIpcRecv(c) \/ SysIpcRecvBad(c)
  \/ \E e \in Env : \/ SchedRun(c, e) \/ SysIpcTrySend(c, e)
                    \/ \E st \in {"RUNNABLE", "NOT_RUNNABLE"} :
                         SysEnvSetStatus(c, e, st)

LEMMA KeepsAlive ==
  ASSUME LibUsers, TypeOK, OwnInv, NEW c \in Cpu, Keeps(c)
  PROVE  Alive' = Alive
<1>1. \A e \in Env : status[e] = "FREE" => status'[e] = "FREE"
  <2>1. NoBirth(c)
    BY DEF Keeps, NoBirth
  <2> QED BY <2>1, FreeStaysFree DEF OwnInv, Core
<1>2. ASSUME NEW e \in Env, status[e] # "FREE" PROVE status'[e] # "FREE"
  <2>1. ASSUME NEW f, NEW s, s # "FREE", status' = [status EXCEPT ![f] = s]
        PROVE  status'[e] # "FREE"
    BY <1>2, <2>1 DEF TypeOK
  <2>2. CASE status' = status
    BY <1>2, <2>2
  <2>3. ASSUME NEW f \in Env, SchedRun(c, f) PROVE status'[e] # "FREE"
    <3>1. Preempted(c) \in [Env -> Status] /\ Preempted(c)[e] # "FREE"
      BY <1>2 DEF Preempted, TypeOK, Status
    <3>2. status' = [Preempted(c) EXCEPT ![f] = "RUNNING"]
      BY <2>3 DEF SchedRun, EnvRun
    <3> QED BY <3>1, <3>2
  <2>4. CASE \/ TrapFromUser(c) \/ TrapFromHalt(c) \/ Acquire(c) \/ Leave(c)
             \/ SchedIdle(c) \/ Stopped(c) \/ Timer(c) \/ SysYield(c) \/ Harmless(c)
             \/ SysIpcRecvBad(c) \/ Breakpoint(c) \/ Overflow(c)
    BY <2>2, <2>4 DEF TrapFromUser, TrapFromHalt, Acquire, Leave, SchedIdle,
       SchedHalt, Stopped, Breakpoint, Overflow, Panic, Timer, SysYield, Harmless, SysIpcRecvBad, vars, envVars
  <2>5. CASE SysIpcRecv(c)
    BY <2>1, <2>5 DEF SysIpcRecv
  <2>6. ASSUME NEW f \in Env, SysIpcTrySend(c, f) PROVE status'[e] # "FREE"
    BY <2>1, <2>6 DEF SysIpcTrySend
  <2>7. ASSUME NEW f \in Env, NEW st \in {"RUNNABLE", "NOT_RUNNABLE"},
               SysEnvSetStatus(c, f, st)
        PROVE  status'[e] # "FREE"
    BY <2>1, <2>7 DEF SysEnvSetStatus
  <2> QED BY <2>3, <2>4, <2>5, <2>6, <2>7 DEF Keeps
<1> QED BY <1>1, <1>2 DEF Alive

\* What total_tickets and the tickets are known to be.
TotalInv == TicketInv /\ total \in Int /\ ints \in Nat

Follows == total' - Held(Alive)' = total - Held(Alive)

\* No zombie ends in a step that frees none but those that are not condemned.
LEMMA NoneLeftBehind ==
  ASSUME \A e \in Env : status[e] = "DYING" => status'[e] # "FREE"
  PROVE  LeftBehind = {} /\ Held(LeftBehind) = 0
BY SumIs, SumEmpty DEF LeftBehind, Held

LEMMA AliveStays ==
  ASSUME Alive' = Alive PROVE LeftBehind = {} /\ Held(LeftBehind) = 0
<1>1. \A e \in Env : status[e] = "DYING" => status'[e] # "FREE"
  BY DEF Alive
<1> QED BY <1>1, NoneLeftBehind

LEMMA HeldIs == /\ Held(Alive) = SumOver(tickets, Alive)
                /\ Held(Alive)' = SumOver(tickets', Alive')
BY SumIs DEF Held

LEMMA AliveTickets ==
  ASSUME TotalInv
  PROVE  /\ IsFiniteSet(Alive) /\ Alive \in SUBSET Env
         /\ \A e \in Alive : tickets[e] \in Int
         /\ Held(Alive) \in Int
<1>1. IsFiniteSet(Alive) /\ Alive \in SUBSET Env
  BY EnvFinite, FS_Subset DEF Alive
<1>2. \A e \in Alive : tickets[e] \in Int
  BY <1>1 DEF TotalInv, TicketInv
<1> QED BY <1>1, <1>2, HeldIs, SumAny

LEMMA SameTotal ==
  ASSUME LibUsers, TypeOK, OwnInv, TotalInv, NEW c \in Cpu, Keeps(c), UNCHANGED tickVars
  PROVE  Follows
BY KeepsAlive, HeldIs DEF tickVars, Follows

\* An environment that loses tickets, and the total as many.
LEMMA PaidTotal ==
  ASSUME LibUsers, TypeOK, OwnInv, TotalInv, NEW c \in Cpu, Keeps(c),
         NEW e \in Alive, NEW v \in Int,
         tickets' = [tickets EXCEPT ![e] = v], total' = total - (tickets[e] - v)
  PROVE  Follows
<1>1. Alive' = Alive /\ e \in Alive /\ tickets \in [Env -> Nat]
  BY KeepsAlive DEF TotalInv, TicketInv
<1>2. /\ tickets'[e] = v
      /\ \A y \in Alive : tickets'[y] \in Int
      /\ \A y \in Alive \ {e} : tickets'[y] = tickets[y]
  BY <1>1 DEF Alive
<1>3. SumOver(tickets', Alive) - v = SumOver(tickets, Alive) - tickets[e]
  <2> DEFINE A == Alive
             u == tickets'
  <2>1. IsFiniteSet(A)
    BY AliveTickets
  <2>2. \A y \in A : tickets[y] \in Int /\ u[y] \in Int
    BY <1>2, AliveTickets
  <2>3. e \in A /\ \A y \in A \ {e} : u[y] = tickets[y]
    BY <1>2
  <2> HIDE DEF A, u
  <2>4. SumOver(u, A) - u[e] = SumOver(tickets, A) - tickets[e]
    BY <2>1, <2>2, <2>3, SumChange
  <2> QED BY <2>4, <1>2 DEF A, u
<1>4. /\ SumOver(tickets', Alive) \in Int /\ SumOver(tickets, Alive) \in Int
      /\ tickets[e] \in Int /\ total \in Int
  BY <1>2, AliveTickets, SumAny DEF TotalInv
<1>5. total' - SumOver(tickets', Alive) = total - SumOver(tickets, Alive)
  BY <1>3, <1>4
<1> QED BY <1>1, <1>5, HeldIs DEF Follows

LEMMA DestroyTotal ==
  ASSUME TypeOK, OwnInv, TotalInv, NEW c \in Cpu, NEW e \in Alive,
         EnvDestroy(c, e), Forfeit(c, e)
  PROVE  Follows
<1>1. /\ e \in Env /\ status[e] # "FREE" /\ pgdir[e]
      /\ UNCHANGED tickets /\ total \in Int /\ status \in [Env -> Status]
  BY DEF Alive, OwnInv, FreeListExact, Forfeit, TotalInv, TypeOK
<1>2. CASE RunsElsewhere(c, e)
  <2>1. total' = total /\ status' = [status EXCEPT ![e] = "DYING"]
    BY <1>2 DEF Forfeit, EnvDestroy
  <2>2. Alive' = Alive
    BY <1>1, <2>1 DEF Alive
  <2> QED BY <1>1, <2>1, <2>2, HeldIs DEF Follows
<1>3. CASE ~RunsElsewhere(c, e)
  <2>1. total' = total - tickets[e] /\ status' = [status EXCEPT ![e] = "FREE"]
    BY <1>1, <1>3 DEF Forfeit, EnvDestroy, EnvFree
  <2>2. Alive' = Alive \ {e}
    BY <1>1, <2>1 DEF Alive
  <2>3. SumOver(tickets, Alive) = tickets[e] + SumOver(tickets, Alive \ {e})
    BY AliveTickets, SumAny
  <2>4. /\ SumOver(tickets, Alive \ {e}) \in Int /\ tickets[e] \in Int
    <3>1. IsFiniteSet(Alive \ {e}) /\ \A y \in Alive \ {e} : tickets[y] \in Int
      BY AliveTickets, FS_RemoveElement
    <3> QED BY <3>1, AliveTickets, SumAny
  <2>5. total' - SumOver(tickets', Alive') = total - SumOver(tickets, Alive)
    BY <1>1, <2>1, <2>2, <2>3, <2>4
  <2> QED BY <2>5, HeldIs DEF Follows
<1> QED BY <1>2, <1>3

LEMMA ExoforkTotal ==
  ASSUME TypeOK, OwnInv, TotalInv, NEW c \in Cpu, LotteryExofork(c)
  PROVE  Follows
<1> DEFINE h == Head(freeList)
<1>1. /\ tickets' = [tickets EXCEPT ![h] = InitTickets]
      /\ total' = total + InitTickets
      /\ status' = [status EXCEPT ![h] = "NOT_RUNNABLE"]
      /\ SysExofork(c)
  BY DEF LotteryExofork, SysExofork, EnvAlloc
<1>2. h \in Env /\ status[h] = "FREE"
  BY <1>1, FreeListPop DEF OwnInv, SysExofork, Status
<1> HIDE DEF h
<1>3. /\ InitTickets \in Int /\ total \in Int /\ tickets \in [Env -> Nat]
      /\ status \in [Env -> Status]
  BY TicketAssumption DEF TotalInv, TicketInv, TypeOK
<1>4. Alive' = Alive \cup {h} /\ h \notin Alive
  BY <1>1, <1>2, <1>3 DEF Alive
<1>5. /\ tickets'[h] = InitTickets
      /\ \A y \in Alive \cup {h} : tickets'[y] \in Int
      /\ \A y \in Alive : tickets[y] \in Int /\ tickets'[y] = tickets[y]
  BY <1>1, <1>2, <1>3 DEF Alive
<1>6. SumOver(tickets', Alive \cup {h}) = tickets'[h] + SumOver(tickets', Alive)
  BY <1>4, <1>5, AliveTickets, SumAdd
<1>7. SumOver(tickets', Alive) = SumOver(tickets, Alive) /\ SumOver(tickets, Alive) \in Int
  BY <1>5, AliveTickets, SumSame, HeldIs
<1>8. total' - SumOver(tickets', Alive') = total - SumOver(tickets, Alive)
  BY <1>1, <1>3, <1>4, <1>5, <1>6, <1>7
<1> QED BY <1>8, HeldIs DEF Follows

LEMMA TimerTotal ==
  ASSUME LibUsers, TypeOK, OwnInv, TotalInv, NEW c \in Cpu, LotteryTimer(c)
  PROVE  \/ Boosted /\ total' = Held(Ready)'
         \/ Ints2Boost = 1
         \/ ~Boosted /\ Follows
<1>1. Keeps(c)
  BY DEF LotteryTimer, Keeps
<1>2. ints \in Nat
  BY DEF TotalInv
<1>3. CASE ints + 1 = Ints2Boost /\ ints' = 0
  <2>1. Boosted \/ Ints2Boost = 1
    BY <1>2, <1>3 DEF Boosted
  <2>2. /\ \A e \in Ready : e \in Env /\ tickets'[e] = InitTickets
        /\ total' = InitTickets * Cardinality(Ready) /\ Ready' = Ready
    BY <1>3 DEF LotteryTimer, Timer, envVars, Ready
  <2>3. IsFiniteSet(Ready) /\ InitTickets \in Nat
    BY EnvFinite, FS_Subset, TicketAssumption DEF Ready
  <2>4. Held(Ready)' = SumOver(tickets', Ready')
    BY SumIs DEF Held
  <2>5. SumOver(tickets', Ready) = InitTickets * Cardinality(Ready)
    BY <2>2, <2>3, SumConst
  <2> QED BY <2>1, <2>2, <2>4, <2>5
<1>4. CASE ints + 1 # Ints2Boost
  <2> SUFFICES Follows
    BY <1>2, <1>4 DEF LotteryTimer, Boosted
  <2>1. CASE Cur(c) = NoEnv
    <3>1. tickets' = tickets /\ total' = total - 0 /\ total \in Int
      BY <2>1, <1>4 DEF LotteryTimer, TotalInv
    <3> QED BY <3>1, <1>1, KeepsAlive, HeldIs DEF Follows
  <2>2. CASE Cur(c) # NoEnv
    <3> DEFINE e == Cur(c)
               v == Reduced(tickets[e])
    <3>1. e \in Env /\ status[e] = "RUNNING"
      BY <2>2, TrapRuns DEF LotteryTimer, Timer, OwnInv, Core
    <3>2. e \in Alive /\ v \in Int
      <4>1. e \in Alive
        BY <3>1 DEF Alive
      <4>2. tickets[e] \in 1 .. InitTickets
        BY <4>1 DEF TotalInv, TicketInv, TicketsInRange
      <4> QED BY <4>1, <4>2, TickLeavesOne
    <3>3. tickets' = [tickets EXCEPT ![e] = v]
      BY <2>2, <1>4 DEF LotteryTimer
    <3>4. tickets'[e] = v
      BY <3>1, <3>3 DEF TotalInv, TicketInv
    <3>5. total' = total - (tickets[e] - v)
      <4> HIDE DEF v
      <4>1. total' = total - (tickets[e] - tickets'[e])
        BY <2>2, <1>4 DEF LotteryTimer
      <4> QED BY <4>1, <3>4
    <3> HIDE DEF e, v
    <3> QED BY <1>1, <3>2, <3>3, <3>5, PaidTotal
  <2> QED BY <2>1, <2>2
<1> QED BY <1>3, <1>4 DEF LotteryTimer

LEMMA CutType == ASSUME NEW t \in Int, NEW p \in Int PROVE Cut(t, p) \in Int
<1> DEFINE y == t * p
<1>1. y \in Int
  OBVIOUS
<1> HIDE DEF y
<1>2. y \div 100 \in Int
  BY <1>1
<1> QED BY <1>2 DEF Cut, y

LEMMA ReduceTotal ==
  ASSUME LibUsers, TypeOK, OwnInv, TotalInv, NEW c \in Cpu, NEW p \in Percents,
         SysReducePriority(c, p)
  PROVE  Follows
<1> DEFINE e == Cur(c)
           cut == Cut(tickets[e], p)
           v == tickets[e] - cut
<1>1. /\ Dispatching(c) /\ p \in 1 .. 99 /\ Harmless(c)
      /\ tickets' = [tickets EXCEPT ![e] = v]
      /\ total' = total - cut
  BY DEF SysReducePriority
<1>2. e \in Env /\ e \in Alive /\ Keeps(c)
  BY <1>1, TrapRuns DEF OwnInv, Core, Alive, Keeps
<1>3. tickets[e] \in 1 .. InitTickets
  BY <1>2 DEF TotalInv, TicketInv, TicketsInRange
<1>4. v \in Int /\ cut \in Int
  <2>1. tickets[e] \in Int /\ p \in Int
    BY <1>1, <1>3
  <2>2. cut \in Int
    BY <2>1, CutType
  <2> HIDE DEF cut
  <2> QED BY <2>1, <2>2
<1>5. tickets[e] - v = cut
  <2> HIDE DEF cut
  <2> QED BY <1>3, <1>4
<1> HIDE DEF e, v, cut
<1> QED BY <1>1, <1>2, <1>4, <1>5, PaidTotal

\* The step of TotalFollows that is not a boost.
FollowsBut == total' - Held(Alive)' = total - Held(Alive) + Held(LeftBehind)

LEMMA FollowsNone ==
  ASSUME TotalInv, Follows, Held(LeftBehind) = 0 PROVE FollowsBut
<1> DEFINE a == Held(Alive)
<1>1. total \in Int /\ a \in Int
  BY AliveTickets DEF TotalInv
<1> HIDE DEF a
<1>2. total - a + 0 = total - a
  BY <1>1
<1> QED BY <1>2 DEF a, Follows, FollowsBut

\* The end of a zombie: the total keeps what it held.
LEMMA ZombieTotal ==
  ASSUME TypeOK, OwnInv, TotalInv, NEW c \in Cpu, Zombie(c), UNCHANGED tickVars
  PROVE  FollowsBut
<1> DEFINE z == Cur(c)
<1>1. /\ z \in Env /\ status[z] = "DYING" /\ status \in [Env -> Status]
      /\ status' = [status EXCEPT ![z] = "FREE"]
      /\ tickets' = tickets /\ total' = total
  BY DEF Zombie, EnvFree, TypeOK, Cur, tickVars
<1> HIDE DEF z
<1>2. Alive' = Alive \ {z} /\ z \in Alive /\ LeftBehind = {z}
  BY <1>1 DEF Alive, LeftBehind
<1>3. SumOver(tickets, Alive) = tickets[z] + SumOver(tickets, Alive \ {z})
  BY <1>2, AliveTickets, SumAny
<1>4. IsFiniteSet(Alive \ {z}) /\ SumOver(tickets, Alive \ {z}) \in Int
      /\ tickets[z] \in Int
  <2>1. IsFiniteSet(Alive \ {z}) /\ \A y \in Alive \ {z} : tickets[y] \in Int
    BY AliveTickets, FS_RemoveElement
  <2> QED BY <2>1, <1>2, AliveTickets, SumAny
<1>5. Held(LeftBehind) = tickets[z]
  <2>1. IsFiniteSet({}) /\ z \notin {} /\ {} \cup {z} = {z}
    BY FS_EmptySet
  <2>2. SumOver(tickets, {} \cup {z}) = tickets[z] + SumOver(tickets, {})
    BY <2>1, <1>4, SumAdd
  <2> QED BY <2>1, <2>2, <1>2, <1>4, SumEmpty, SumIs DEF Held
<1>6. total' - SumOver(tickets', Alive') = total - SumOver(tickets, Alive) + tickets[z]
  <2>1. total \in Int
    BY DEF TotalInv
  <2> DEFINE a == SumOver(tickets, Alive \ {z})
  <2>2. a \in Int
    BY <1>4
  <2> HIDE DEF a
  <2>3. total - a = total - (tickets[z] + a) + tickets[z]
    BY <2>1, <2>2, <1>4
  <2> QED BY <2>3, <1>1, <1>2, <1>3 DEF a
<1> QED BY <1>5, <1>6, HeldIs DEF FollowsBut

LEMMA TotalStep ==
  ASSUME LibUsers, TypeOK, OwnInv, TotalInv, LotNext
  PROVE  /\ total' \in Int /\ ints' \in Nat
         /\ \/ Boosted /\ total' = Held(Ready)'
            \/ Ints2Boost = 1
            \/ ~Boosted /\ FollowsBut
<1>1. PICK c \in Cpu : \/ LotteryRun(c) \/ LotteryExofork(c) \/ LotteryDestroy(c)
                       \/ LotteryTimer(c) \/ LotteryOther(c)
                       \/ \E p \in Percents : SysReducePriority(c, p)
  BY DEF LotNext
<1>2. ints' \in Nat
  <2>1. ints \in Nat
    BY DEF TotalInv
  <2> QED BY <1>1, <2>1 DEF LotteryRun, LotteryExofork, LotteryDestroy, LotteryTimer,
       LotteryOther, SysReducePriority, Forfeit, tickVars
<1>3. ASSUME UNCHANGED ints PROVE ~Boosted
  BY <1>3 DEF Boosted
<1>11. ASSUME Keeps(c), Follows PROVE FollowsBut
  BY <1>11, KeepsAlive, AliveStays, FollowsNone
<1>4. CASE LotteryRun(c)
  <2>1. Keeps(c) /\ UNCHANGED tickVars
    BY <1>4, RunsEligible DEF LotteryRun, Keeps
  <2>2. FollowsBut
    BY <2>1, <1>11, SameTotal
  <2> QED BY <2>1, <2>2, <1>2, <1>3 DEF TotalInv, tickVars
<1>5. CASE LotteryExofork(c)
  <2>1. total' \in Int
    BY <1>5, TicketAssumption DEF LotteryExofork, TotalInv
  <2>2. status' = [status EXCEPT ![Head(freeList)] = "NOT_RUNNABLE"]
    BY <1>5 DEF LotteryExofork, SysExofork, EnvAlloc
  <2>3. \A e \in Env : status[e] = "DYING" => status'[e] # "FREE"
    BY <2>2 DEF TypeOK
  <2>4. FollowsBut
    BY <2>3, <1>5, ExoforkTotal, NoneLeftBehind, FollowsNone
  <2> QED BY <2>1, <2>4, <1>2, <1>3, <1>5 DEF LotteryExofork
<1>6. ASSUME NEW e \in Alive, status[e] # "DYING", EnvDestroy(c, e), Forfeit(c, e)
      PROVE  total' \in Int /\ FollowsBut /\ ~Boosted
  <2>1. tickets[e] \in Int /\ total \in Int
    BY AliveTickets DEF TotalInv
  <2>2. total' \in Int
    BY <2>1, <1>6 DEF Forfeit
  <2>3. \/ status' = status
        \/ status' = [status EXCEPT ![e] = "DYING"]
        \/ status' = [status EXCEPT ![e] = "FREE"]
    BY <1>6 DEF EnvDestroy, EnvFree, Panic, envVars
  <2>4. \A f \in Env : status[f] = "DYING" => status'[f] # "FREE"
    BY <2>3, <1>6 DEF TypeOK
  <2>5. FollowsBut
    BY <2>4, <1>6, DestroyTotal, NoneLeftBehind, FollowsNone
  <2> QED BY <2>2, <2>5, <1>3, <1>6 DEF Forfeit
<1>7. CASE LotteryDestroy(c)
  <2>1. CASE Fault(c) /\ Forfeit(c, Cur(c))
    <3>1. Cur(c) \in Alive /\ EnvDestroy(c, Cur(c)) /\ status[Cur(c)] # "DYING"
      BY <2>1, TrapRuns DEF Fault, OwnInv, Core, Alive
    <3> QED BY <3>1, <2>1, <1>2, <1>6
  <2>2. ASSUME NEW e \in Env, SysEnvDestroy(c, e), Forfeit(c, e)
        PROVE  total' \in Int /\ FollowsBut /\ ~Boosted
    <3>1. e \in Alive /\ EnvDestroy(c, e) /\ status[e] # "DYING"
      BY <2>2, TrapRuns DEF SysEnvDestroy, Named, OwnInv, Core, Alive
    <3> QED BY <3>1, <2>2, <1>6
  <2> QED BY <1>2, <1>7, <2>1, <2>2 DEF LotteryDestroy
<1>8. CASE LotteryTimer(c)
  <2>1. total' \in Int
    <3>1. InitTickets \in Nat /\ total \in Int
      BY TicketAssumption DEF TotalInv
    <3>2. CASE ints + 1 = Ints2Boost
      <4>1. total' = InitTickets * Cardinality({e \in Env : status[e] \in {"RUNNABLE", "RUNNING"}})
        BY <1>8, <3>2 DEF LotteryTimer, Ready
      <4>2. Cardinality({e \in Env : status[e] \in {"RUNNABLE", "RUNNING"}}) \in Nat
        BY EnvFinite, FS_Subset, FS_CardinalityType
      <4> QED BY <4>1, <4>2, <3>1
    <3>3. CASE ints + 1 # Ints2Boost /\ Cur(c) = NoEnv
      <4>1. total' = total - 0
        BY <1>8, <3>3 DEF LotteryTimer
      <4> QED BY <4>1, <3>1
    <3>4. CASE ints + 1 # Ints2Boost /\ Cur(c) # NoEnv
      <4>1. Cur(c) \in Env /\ Cur(c) \in Alive
        BY <1>8, <3>4, TrapRuns DEF LotteryTimer, Timer, OwnInv, Core, Alive
      <4>2. tickets \in [Env -> Nat] /\ tickets[Cur(c)] \in 1 .. InitTickets
        BY <4>1 DEF TotalInv, TicketInv, TicketsInRange
      <4>3. Reduced(tickets[Cur(c)]) \in Int
        BY <4>2, TickLeavesOne
      <4>4. total' = total - (tickets[Cur(c)] - Reduced(tickets[Cur(c)]))
        BY <1>8, <3>4, <4>1, <4>2 DEF LotteryTimer
      <4> QED BY <3>1, <4>2, <4>3, <4>4
    <3> QED BY <3>2, <3>3, <3>4
  <2>2. Keeps(c)
    BY <1>8 DEF LotteryTimer, Keeps
  <2> QED BY <2>1, <2>2, <1>2, <1>8, <1>11, TimerTotal
<1>9. CASE LotteryOther(c)
  <2>1. CASE Zombie(c)
    BY <2>1, <1>2, <1>3, <1>9, ZombieTotal DEF LotteryOther, tickVars, TotalInv
  <2>2. CASE ~Zombie(c)
    <3>1. Keeps(c) /\ UNCHANGED tickVars
      BY <1>9, <2>2 DEF LotteryOther, Keeps
    <3>2. FollowsBut
      BY <3>1, <1>11, SameTotal
    <3> QED BY <3>1, <3>2, <1>2, <1>3 DEF TotalInv, tickVars
  <2> QED BY <2>1, <2>2
<1>10. ASSUME NEW p \in Percents, SysReducePriority(c, p)
       PROVE  total' \in Int /\ FollowsBut /\ ~Boosted
  <2>1. Dispatching(c) /\ p \in 1 .. 99 /\ total' = total - Cut(tickets[Cur(c)], p)
    BY <1>10 DEF SysReducePriority
  <2>2. tickets[Cur(c)] \in 1 .. InitTickets
    BY <2>1, TrapRuns DEF OwnInv, Core, Alive, TotalInv, TicketInv, TicketsInRange
  <2>3. total' \in Int
    BY <2>1, <2>2, CutType DEF TotalInv
  <2>4. Keeps(c) /\ UNCHANGED ints
    BY <2>1, <1>10 DEF SysReducePriority, Keeps
  <2> QED BY <2>3, <2>4, <1>3, <1>10, <1>11, ReduceTotal
<1> QED BY <1>1, <1>2, <1>4, <1>5, <1>7, <1>8, <1>9, <1>10

LEMMA TotalAlways == ASSUME LibUsers PROVE LotSpec => []TotalInv
<1>1. LotInit => TotalInv
  <2> SUFFICES ASSUME LotInit PROVE total \in Int /\ ints \in Nat
    BY InitTicketsOK DEF TotalInv
  <2> QED BY TicketAssumption, SizeAssumption DEF LotInit
<1>2. TypeOK /\ OwnInv /\ TotalInv /\ [LotNext]_lotVars => TotalInv'
  <2>1. ASSUME TypeOK, OwnInv, TotalInv, LotNext PROVE TotalInv'
    BY <2>1, TotalStep, TicketStep DEF TotalInv
  <2>2. ASSUME TotalInv, TypeOK, OwnInv, UNCHANGED lotVars PROVE TotalInv'
    BY <2>2, TicketStep DEF TotalInv, lotVars, tickVars
  <2> QED BY <2>1, <2>2
<1>3. LotSpec => Spec
  BY LotteryImplements DEF ImplementsKernel
<1> QED BY <1>1, <1>2, <1>3, OwnAlways, PTL DEF LotSpec

\* total_tickets and the tickets held change together in every step but two, and
\* there differ by exactly what TotalFollows says: the tickets of the zombie that
\* ended, and, from a boost on, what the environments it passed over hold.  For any
\* number of processors and slots, any tickets, decay and percentages, and any
\* interval of boosts longer than a tick, by which the property tells a boost.
THEOREM TotalFollowsCorrect ==
  ASSUME LibUsers, Ints2Boost # 1 PROVE LotSpec => TotalFollows
<1>1. TypeOK /\ OwnInv /\ TotalInv /\ [LotNext]_lotVars =>
        [IF Boosted THEN total' = Held(Ready)'
         ELSE total' - Held(Alive)' = total - Held(Alive) + Held(LeftBehind)]_lotVars
  BY TotalStep DEF FollowsBut
<1>2. LotSpec => Spec
  BY LotteryImplements DEF ImplementsKernel
<1> QED BY <1>1, <1>2, TotalAlways, OwnAlways, PTL DEF LotSpec, TotalFollows

\* While the product of the draw does not pass the end of an unsigned int (up to
\* 2580 tickets in the code), the environments that can win are those that WhoCanWin
\* names and no others: for any number of slots, any tickets and any modulus.
THEOREM WhoCanWinCorrect == ASSUME LibUsers PROVE LotSpec => []WhoCanWin
<1>1. TotalInv => WhoCanWin
  <2> SUFFICES ASSUME TotalInv, DrawFits, NEW S \in SUBSET Alive, NEW e \in S
               PROVE  (\E r \in 0 .. RandM - 1 : Scan(S, Draw(r)) = e)
                        <=> \/ \A d \in S : e <= d
                            \/ Held({d \in S : d < e}) + 1 < total
    BY DEF WhoCanWin
  <2>1. /\ tickets \in [Env -> Nat] /\ S \in SUBSET Env
        /\ \A x \in S : tickets[x] >= 1
    BY DEF TotalInv, TicketInv, TicketsInRange, Alive
  <2>2. /\ total \in Nat /\ total <= RandM /\ total * RandM <= Word
        /\ 0 \in 0 .. RandM - 1
    BY TicketAssumption DEF DrawFits
  <2> DEFINE b == Held({d \in S : d < e})
             first == \A d \in S : e <= d
  <2>3. /\ b \in Nat /\ Scan(S, b + 1) = e /\ (first => Scan(S, 0) = e)
        /\ \A w \in Nat : Scan(S, w) = e => first \/ b < w
    BY <2>1, ScanStops
  <2> HIDE DEF b, first
  <2>4. CASE first
    <3>1. Draw(0) = 0
      BY <2>2, DrawBelow
    <3> QED BY <3>1, <2>2, <2>3, <2>4 DEF first, b
  <2>5. ASSUME b + 1 < total PROVE \E r \in 0 .. RandM - 1 : Scan(S, Draw(r)) = e
    <3>1. PICK r \in 0 .. RandM - 1 : Draw(r) = b + 1
      BY <2>2, <2>3, <2>5, DrawReaches
    <3> QED BY <3>1, <2>3
  <2>6. ASSUME NEW r \in 0 .. RandM - 1, Scan(S, Draw(r)) = e, ~first PROVE b + 1 < total
    <3>1. Draw(r) \in Nat /\ (Draw(r) = 0 \/ Draw(r) < total)
      BY <2>2, DrawBelow
    <3>2. b < Draw(r)
      BY <3>1, <2>3, <2>6
    <3> QED BY <3>1, <3>2, <2>2, <2>3
  <2> QED BY <2>4, <2>5, <2>6 DEF first, b
<1> QED BY <1>1, TotalAlways, PTL
=============================================================================
