---------------------------- MODULE EnvOwnership ----------------------------
(***************************************************************************)
(* What the kernel promises about environments and processors, without the *)
(* lock, the run states or the free list: an environment is on at most one *)
(* processor; one that is off every processor can be killed at once; one   *)
(* that is running somewhere can only be condemned, and then leaves its    *)
(* processor only to disappear.                                            *)
(***************************************************************************)
CONSTANTS Cpu, Env, NoEnv

VARIABLES
  alive,      \* the environments that exist
  condemned,  \* those of them that have been killed while running
  on          \* on[c]: the environment processor c is running, or NoEnv

vars == <<alive, condemned, on>>

Running == {on[c] : c \in Cpu} \ {NoEnv}

Init == /\ alive \in SUBSET Env
        /\ condemned = {}
        /\ on = [c \in Cpu |-> NoEnv]

Create(e) == /\ e \in Env \ alive
             /\ alive' = alive \cup {e}
             /\ UNCHANGED <<condemned, on>>

\* c gives up what it runs for e, which no processor is running.
Dispatch(c, e) == /\ e \in alive \ Running
                  /\ on[c] \notin condemned
                  /\ on' = [on EXCEPT ![c] = e]
                  /\ UNCHANGED <<alive, condemned>>

Release(c) == /\ on[c] \in alive \ condemned
              /\ on' = [on EXCEPT ![c] = NoEnv]
              /\ UNCHANGED <<alive, condemned>>

\* The environment on c ends there, condemned or of its own will.
Exit(c) == /\ on[c] \in alive
           /\ alive' = alive \ {on[c]}
           /\ condemned' = condemned \ {on[c]}
           /\ on' = [on EXCEPT ![c] = NoEnv]

Condemn(e) == /\ e \in Running \ condemned
              /\ condemned' = condemned \cup {e}
              /\ UNCHANGED <<alive, on>>

Kill(e) == /\ e \in alive \ Running
           /\ alive' = alive \ {e}
           /\ UNCHANGED <<condemned, on>>

Next == \/ \E e \in Env : Create(e) \/ Condemn(e) \/ Kill(e)
        \/ \E c \in Cpu : Release(c) \/ Exit(c) \/ \E e \in Env : Dispatch(c, e)

Spec == Init /\ [][Next]_vars

-----------------------------------------------------------------------------
\* The promise in one line: each environment on one processor at most, and only
\* existing environments on processors.
Exclusive == /\ \A c, d \in Cpu : c # d /\ on[c] # NoEnv => on[c] # on[d]
             /\ Running \subseteq alive
             /\ condemned \subseteq Running
=============================================================================
