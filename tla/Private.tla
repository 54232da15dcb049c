------------------------------- MODULE Private -------------------------------
(***************************************************************************)
(* What fork() promises: every program has a memory of its own.  A child's *)
(* is copied from its parent's, page by page and before the child starts,  *)
(* and from then on only a program itself changes what it sees.            *)
(***************************************************************************)
CONSTANTS Env, Pages, Value, Zero, Nothing, Nobody

VARIABLES
  space,   \* what each environment sees in each page
  stage,   \* "none", "loading", "made" (by fork(), not started) or "running"
  maker    \* the environment whose fork() makes this one

vars == <<space, stage, maker>>

Empty == [va \in Pages |-> Nothing]

Init ==
  /\ space = [e \in Env |-> Empty]
  /\ stage = [e \in Env |-> "none"]
  /\ maker = [e \in Env |-> Nobody]

Create(e) ==
  /\ stage[e] = "none" /\ stage' = [stage EXCEPT ![e] = "loading"]
  /\ UNCHANGED <<space, maker>>

Load(e, va) ==
  /\ stage[e] = "loading" /\ space[e][va] = Nothing
  /\ space' = [space EXCEPT ![e][va] = Zero]
  /\ \/ UNCHANGED stage
     \/ /\ \A v \in Pages \ {va} : space[e][v] # Nothing
        /\ stage' = [stage EXCEPT ![e] = "running"]
  /\ UNCHANGED maker

Make(e, c) ==
  /\ stage[e] = "running" /\ stage[c] = "none"
  /\ stage' = [stage EXCEPT ![c] = "made"]
  /\ maker' = [maker EXCEPT ![c] = e]
  /\ UNCHANGED space

Copy(c, va) ==
  /\ stage[c] = "made" /\ space[c][va] = Nothing
  /\ space' = [space EXCEPT ![c][va] = space[maker[c]][va]]
  /\ UNCHANGED <<stage, maker>>

Start(c) ==
  /\ stage[c] = "made" /\ \A va \in Pages : space[c][va] # Nothing
  /\ stage' = [stage EXCEPT ![c] = "running"]
  /\ maker' = [maker EXCEPT ![c] = Nobody]
  /\ UNCHANGED space

Write(e, va, v) ==
  /\ stage[e] = "running"
  /\ space' = [space EXCEPT ![e][va] = v]
  /\ UNCHANGED <<stage, maker>>

\* An environment ends, or a fork() does, and the child that it has not started
\* comes to nothing.
End(S) ==
  /\ \A c \in S : stage[c] \in {"running", "made"}
  /\ \A c \in Env : maker[c] \in S => c \in S
  /\ space' = [e \in Env |-> IF e \in S THEN Empty ELSE space[e]]
  /\ stage' = [e \in Env |-> IF e \in S THEN "none" ELSE stage[e]]
  /\ maker' = [e \in Env |-> IF e \in S THEN Nobody ELSE maker[e]]

Next ==
  \/ \E e \in Env :
       \/ Create(e) \/ Start(e)
       \/ \E va \in Pages : Load(e, va) \/ Copy(e, va) \/ \E v \in Value : Write(e, va, v)
       \/ \E c \in Env : Make(e, c)
  \/ \E S \in SUBSET Env : End(S)

Spec == Init /\ [][Next]_vars
=============================================================================
