-------------------------- MODULE RoundRobinProofs --------------------------
(* The round-robin build only makes choices that Kernel leaves open, so what *)
(* KernelProofs shows of Kernel holds of it.                                 *)
EXTENDS RoundRobin, KernelProofs

\* The two calls of get_next_runnable_process() find a RUNNABLE slot whenever
\* there is one, whichever slot they start from.
LEMMA FirstFromRunnable ==
  ASSUME Runnable # {}, NEW pos PROVE FirstFrom(pos) \in Runnable
<1> DEFINE ahead == {e \in Runnable : e >= pos}
<1>1. ahead \in SUBSET Env /\ Runnable \in SUBSET Env
  BY DEF Runnable
<1>2. CASE ahead # {}
  <2>1. \E x \in ahead : \A y \in ahead : x =< y
    BY <1>1, <1>2, FirstAndLastSlot
  <2>2. Min(ahead) \in ahead
    BY <2>1 DEF Min
  <2> QED BY <1>2, <2>2 DEF FirstFrom
<1>3. CASE ahead = {}
  <2>1. \E x \in Runnable : \A y \in Runnable : x =< y
    BY <1>1, FirstAndLastSlot
  <2>2. Min(Runnable) \in Runnable
    BY <2>1 DEF Min
  <2> QED BY <1>3, <2>2 DEF FirstFrom
<1> QED BY <1>2, <1>3

LEMMA RunsEligible ==
  ASSUME TypeOK, NEW c \in Cpu, RRRun(c) PROVE \E e \in Env : SchedRun(c, e)
<1>1. CASE Runnable # {} /\ EnvRun(c, FirstFrom(ScanFrom(c)))
  <2>1. FirstFrom(ScanFrom(c)) \in Runnable
    BY <1>1, FirstFromRunnable
  <2>2. FirstFrom(ScanFrom(c)) \in Env /\ FirstFrom(ScanFrom(c)) \in Eligible(c)
    BY <1>1, <2>1 DEF Eligible, Runnable
  <2>3. SchedRun(c, FirstFrom(ScanFrom(c)))
    BY <1>1, <2>2 DEF RRRun, SchedRun
  <2> QED BY <2>2, <2>3
<1>2. CASE /\ Runnable = {} /\ Cur(c) # NoEnv
           /\ status[Cur(c)] = "RUNNING" /\ EnvRun(c, Cur(c))
  <2>1. Cur(c) \in Env /\ Cur(c) \in Eligible(c)
    BY <1>2 DEF Eligible, TypeOK, Cur
  <2> QED BY <1>2, <2>1 DEF RRRun, SchedRun
<1> QED BY <1>1, <1>2 DEF RRRun

\* The round-robin scheduler of kern/sched.c implements Kernel, for any number
\* of processors and slots and for any programs.
THEOREM RoundRobinImplements == RRSpec => ImplementsKernel
<1>1. TypeOK /\ [RRNext]_vars => [Next]_vars
  BY RunsEligible DEF RRNext, Next
<1>2. Init => TypeOK
  BY InitType
<1>3. TypeOK /\ [RRNext]_vars => TypeOK'
  BY <1>1, NextType
<1> QED BY <1>1, <1>2, <1>3, PTL DEF RRSpec, ImplementsKernel, Spec
=============================================================================
