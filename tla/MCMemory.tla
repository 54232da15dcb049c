------------------------------ MODULE MCMemory ------------------------------
(* Small instances of Memory for TLC.                                       *)
EXTENDS Memory

OneTable == [va \in Va |-> "hi"]

\* What is left of a memory when its pages lose their names: which entries share
\* a page, what it holds and counts, and how many others there are of each kind.
\* Nothing in Memory tells pages apart by name.
Unnamed(m) ==
  LET used == {m.frame[s] : s \in Slot} \ {NoPage}
      kind(p) == <<m.ref[p], p \in m.free>>
      rest == Page \ used
  IN  <<{<<Refs(m, p), kind(p), m.data[p]>> : p \in used}, m.perm,
        [k \in {kind(p) : p \in rest} |-> Cardinality({p \in rest : kind(p) = k})]>>

\* TypeOK, which is always true, is there to have TLC evaluate all of mem.
View == <<TypeOK, Unnamed(mem), procVars>>
=============================================================================
