----------------------------- MODULE MCCowFork -----------------------------
(* Small instances of CowFork for TLC.                                      *)
EXTENDS CowFork

\* PFTEMP and UTEMP lie in a page table of their own.
TwoTables == [va \in Va |-> IF va = "tmp" THEN "lo" ELSE "hi"]

\* The forks of a behaviour.  After fork() and fork_v0() a third call may be one of
\* a program that fork_v0() has half armed.
SomePlans ==
  {<<"fork", "fork">>, <<"fork_v0", "fork_v0">>, <<"fork_v0", "fork">>,
   <<"fork", "fork_v0", "fork">>}

\* As in MCMemory: pages without their names.
Unnamed(m) ==
  LET used == {m.frame[s] : s \in Slot} \ {NoPage}
      kind(p) == <<m.ref[p], p \in m.free>>
      rest == Page \ used
  IN  <<{<<Refs(m, p), kind(p), m.data[p]>> : p \in used}, m.perm,
        [k \in {kind(p) : p \in rest} |-> Cardinality({p \in rest : kind(p) = k})]>>

\* TypeOK, which is always true, is there to have TLC evaluate all of mem.
View == <<TypeOK, Unnamed(mem), procVars, fixVars, progVars>>
=============================================================================
