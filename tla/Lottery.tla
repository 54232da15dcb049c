------------------------------- MODULE Lottery -------------------------------
(***************************************************************************)
(* The kernel built with SCHED_PROPORTIONAL_SHARE: every environment holds *)
(* tickets, sched_yield() draws a number and scans envs[] for its winner.  *)
(* Each action is one of Kernel's with what it does to the tickets.        *)
(*                                                                         *)
(* prev_random is left out: the draw takes any remainder of its division.  *)
(***************************************************************************)
EXTENDS Kernel, FiniteSetsExt

CONSTANTS
  InitTickets,  \* tickets of a new environment (100)
  Decay,        \* what a tick costs the interrupted environment (10)
  Ints2Boost,   \* ticks between two boosts (INTS2BOOST, 10)
  RandM,        \* m, the modulus of the generator (1664525)
  Word,         \* 2^32, the range of an unsigned int
  Percents,     \* the arguments of sys_reduce_priority()
  MaxTotal      \* bound: nothing forks while total_tickets is above it

ASSUME TicketAssumption ==
  /\ InitTickets \in Nat \ {0} /\ Decay \in Nat \ {0} /\ Ints2Boost \in Nat \ {0}
  /\ RandM \in Nat \ {0} /\ Word \in Nat \ {0} /\ MaxTotal \in Nat
\* An env_id is at least 1 << ENVGENSHIFT, so a percentage never names one.
ASSUME PercentAssumption == Percents \subseteq 0 .. 200

VARIABLES
  tickets,   \* tickets of each slot
  total,     \* total_tickets
  ints       \* timer_int_counter

tickVars == <<tickets, total, ints>>
lotVars == <<vars, tickVars>>

Held(S) == SumFunctionOnSet(tickets, S)
Alive == {e \in Env : status[e] # "FREE"}

LotInit ==
  /\ Init
  /\ tickets = [e \in Env |-> IF e < NInit THEN InitTickets ELSE 0]
  /\ total = NInit * InitTickets
  /\ ints = 0

-----------------------------------------------------------------------------
(* The draw.                                                               *)

\* Seeded fault: the remainder is scaled by one ticket too few.
DrawShort(r) == ((r * (total - 1)) % Word) \div RandM

\* generate_pseudorandom_value(): the product is an unsigned int.
Draw(r) == ((r * total) % Word) \div RandM

\* Seeded fault: the scan adds up the tickets of environments in any state.
ScanEveryone(S, w) ==
  LET counter(e) == Held({d \in Env : d <= e})
      reached    == {e \in Alive : counter(e) >= w}
  IN  IF reached # {} THEN Min(reached) ELSE Max(Alive)

\* The scan of sched_yield(), with S the RUNNABLE slots: the first of them at which
\* the sum reaches w, the last one when none does.
Scan(S, w) ==
  LET counter(e) == Held({d \in S : d <= e})
      reached    == {e \in S : counter(e) >= w}
  IN  IF reached # {} THEN Min(reached) ELSE Max(S)

LotteryRun(c) ==
  /\ pc[c] = "sched"
  /\ \/ /\ Runnable # {}
        /\ \E r \in 0 .. RandM - 1 : EnvRun(c, Scan(Runnable, Draw(r)))
     \/ /\ Runnable = {}
        /\ Cur(c) # NoEnv /\ status[Cur(c)] = "RUNNING"
        /\ EnvRun(c, Cur(c))
  /\ UNCHANGED tickVars

-----------------------------------------------------------------------------
(* What the other handlers do to the tickets.                              *)

LotteryExofork(c) ==
  /\ total <= MaxTotal
  /\ SysExofork(c)
  /\ tickets' = [tickets EXCEPT ![Head(freeList)] = InitTickets]
  /\ total' = total + InitTickets
  /\ UNCHANGED ints

\* Seeded fault: env_destroy() forgets total_tickets.
ForfeitNothing(c, e) == UNCHANGED tickVars

\* env_destroy(e) takes the tickets of e out of the total, unless it leaves
\* e to its processor.
Forfeit(c, e) ==
  /\ total' = IF RunsElsewhere(c, e) THEN total ELSE total - tickets[e]
  /\ UNCHANGED <<tickets, ints>>

LotteryDestroy(c) ==
  \/ Fault(c) /\ Forfeit(c, Cur(c))
  \/ \E e \in Env : SysEnvDestroy(c, e) /\ Forfeit(c, e)

\* Seeded fault: >= where the code has >.
ReducedToNothing(t) == IF t >= Decay THEN t - Decay ELSE 1

\* reduce_current_env_prio(), for an environment with t tickets.
Reduced(t) == IF t > Decay THEN t - Decay ELSE 1

\* Who takes part in a boost.
Ready == {e \in Env : status[e] \in {"RUNNABLE", "RUNNING"}}

\* The timer interrupt: the tick's price, then a boost every Ints2Boost ticks.
LotteryTimer(c) ==
  LET paid  == IF Cur(c) = NoEnv THEN tickets
               ELSE [tickets EXCEPT ![Cur(c)] = Reduced(@)]
      price == IF Cur(c) = NoEnv THEN 0
               ELSE tickets[Cur(c)] - paid[Cur(c)]
  IN  /\ Timer(c)
      /\ \/ /\ ints + 1 # Ints2Boost
            /\ ints' = ints + 1
            /\ tickets' = paid
            /\ total' = total - price
         \/ /\ ints + 1 = Ints2Boost
            /\ ints' = 0
            /\ tickets' = [e \in Env |-> IF e \in Ready THEN InitTickets ELSE paid[e]]
            /\ total' = InitTickets * Cardinality(Ready)

\* The tickets that sys_reduce_priority(p) takes from t.
Cut(t, p) == IF (t * p) \div 100 > 0 THEN (t * p) \div 100 ELSE t - 1

\* SYS_reduce_priority, which falls through to sys_env_destroy(p): envid 0 is
\* the caller, any other percentage is no env_id.  The percentage is not checked:
\* from 100 on it leaves no ticket, or a negative number of them.  LibUsers has
\* the programs pass 1 to 99, as the one program that calls it does.
SysReducePriority(c, p) ==
  LET cut == Cut(tickets[Cur(c)], p)
  IN  /\ Dispatching(c)
      /\ LibUsers => p \in 1 .. 99
      /\ tickets' = [tickets EXCEPT ![Cur(c)] = @ - cut]
      /\ UNCHANGED ints
      /\ \/ /\ p # 0
            /\ total' = total - cut
            /\ Harmless(c)
         \/ /\ p = 0
            /\ total' = total - cut - tickets'[Cur(c)]
            /\ EnvDestroy(c, Cur(c))

\* The handlers that leave the tickets alone: the end of a zombie among them.
LotteryOther(c) ==
  /\ \/ TrapFromUser(c) \/ TrapFromHalt(c) \/ Acquire(c) \/ Leave(c)
     \/ SchedIdle(c) \/ Stopped(c)
     \/ Zombie(c) \/ SysYield(c) \/ Harmless(c)
     \/ SysIpcRecv(c) \/ SysIpcRecvBad(c) \/ Breakpoint(c) \/ Overflow(c)
     \/ \E e \in Env : \/ SysIpcTrySend(c, e)
                       \/ \E st \in {"RUNNABLE", "NOT_RUNNABLE"} :
                            SysEnvSetStatus(c, e, st)
  /\ UNCHANGED tickVars

LotNext ==
  \E c \in Cpu :
    \/ LotteryRun(c) \/ LotteryExofork(c) \/ LotteryDestroy(c)
    \/ LotteryTimer(c) \/ LotteryOther(c)
    \/ \E p \in Percents : SysReducePriority(c, p)

LotSpec == LotInit /\ [][LotNext]_lotVars

-----------------------------------------------------------------------------
(* Properties.                                                             *)

\* "El algoritmo garantiza la ejecución de un proceso válido" (sched.md:174):
\* whatever is drawn, with whatever total, the kernel runs a RUNNABLE
\* environment, or curenv when there is none, and behaves as Kernel says.
ImplementsKernel == Spec

\* An existing environment holds at least one ticket and never more than it
\* was given, however ticks, boosts and percentages from 1 to 99 follow.
TicketsInRange == \A e \in Alive : tickets[e] \in 1 .. InitTickets

\* total_tickets and the tickets held change together in every step but two: the
\* end of a zombie leaves its tickets in the total (trap.c:283-288), and a boost
\* starts the total anew from the environments it gives tickets to, the RUNNABLE
\* and the RUNNING ones, whatever the others still hold.
LeftBehind == {e \in Env : status[e] = "DYING" /\ status'[e] = "FREE"}
Boosted == ints # 0 /\ ints' = 0
TotalFollows ==
  [][IF Boosted THEN total' = Held(Ready)'
     ELSE total' - Held(Alive)' = total - Held(Alive) + Held(LeftBehind)]_lotVars

\* The product of the draw does not pass the end of an unsigned int.
DrawFits == total \in 0 .. RandM /\ total * RandM <= Word

\* Exactly who can win, whichever of the existing environments are RUNNABLE and
\* however far total_tickets is from what they hold: the first one of the scan, and
\* each one before which fewer than total - 1 tickets lie.  A total of exactly what
\* they hold leaves out a last one with one ticket; a lower one, as after a boost
\* that blocked environments outlived, leaves out several.
WhoCanWin ==
  DrawFits => \A S \in SUBSET Alive : \A e \in S :
    (\E r \in 0 .. RandM - 1 : Scan(S, Draw(r)) = e)
      <=> \/ \A d \in S : e <= d
          \/ Held({d \in S : d < e}) + 1 < total
=============================================================================
