------------------------------ MODULE FileTree ------------------------------
(***************************************************************************)
(* What a mounted file system promises to who uses it: a tree of           *)
(* directories and files, each call changing what its path names and       *)
(* nothing else, and an image that brings back the tree of the last save   *)
(* that was completed.                                                     *)
(***************************************************************************)
EXTENDS Naturals, Sequences, SequencesExt

CONSTANTS Paths, Zero, Buffers, Offsets, Lengths, None, Dir

VARIABLES
  tree,     \* what each path names: None, Dir or the bytes of a file
  saved,    \* the same for the image
  image,    \* "none", "torn" or "whole"
  status    \* "down", "up", "saving", "leaving" or "broken"

vars == <<tree, saved, image, status>>

Nowhere == [p \in Paths |-> None]
Empty == [p \in Paths |-> IF p = <<>> THEN Dir ELSE None]

Init == tree = Nowhere /\ saved = Nowhere /\ image = "none" /\ status = "down"

\* What a call makes of path p, from tree old to tree new.

Added(old, new, p) ==
  /\ old[p] = None /\ old[Front(p)] = Dir
  /\ new[p] \in {Dir, <<>>}

Deleted(old, new, p) ==
  /\ new[p] = None
  /\ \A q \in Paths : q # <<>> /\ Front(q) = p => old[q] = None

\* The bytes of a buffer, or the first k when there is no room for more.
Written(c, d) ==
  \E offset \in Offsets, buf \in Buffers : \E k \in 0..Len(buf) :
    /\ offset <= Len(c)
    /\ d = SubSeq(c, 1, offset) \o SubSeq(buf, 1, k) \o SubSeq(c, offset + k + 1, Len(c))

\* Cut short, or made longer with zeroes as far as there is room.
Truncated(c, d) ==
  \E n \in Lengths :
    IF n < Len(c) THEN d = SubSeq(c, 1, n)
    ELSE /\ Len(d) \in Len(c)..n
         /\ d = c \o [i \in 1..(Len(d) - Len(c)) |-> Zero]

Call ==
  /\ status = "up" /\ UNCHANGED <<image, status, saved>>
  /\ \E old \in {tree}, new \in {tree'} :
       LET changed == {p \in Paths : new[p] # old[p]}
       IN  \E p \in changed \ {<<>>} :
           /\ changed = {p}
           /\ IF old[p] = None THEN Added(old, new, p)
              ELSE \/ Deleted(old, new, p)
                   \/ /\ Dir \notin {old[p], new[p]} /\ new[p] # None
                      /\ Written(old[p], new[p]) \/ Truncated(old[p], new[p])

Save ==
  /\ status = "up" /\ status' \in {"saving", "leaving"}
  /\ image' = "torn" /\ saved' = Nowhere /\ UNCHANGED tree

Saved ==
  /\ status \in {"saving", "leaving"}
  /\ image' = "whole" /\ saved' = tree
  /\ IF status = "saving" THEN status' = "up" /\ UNCHANGED tree
     ELSE status' = "down" /\ tree' = Nowhere

Crash == /\ status # "down" /\ status' = "down" /\ tree' = Nowhere
         /\ UNCHANGED <<saved, image>>

\* Only an image that a save did not finish may be of no use.
Mount ==
  /\ status = "down"
  /\ \/ image = "none" /\ status' = "up" /\ tree' = Empty
     \/ image = "torn" /\ status' = "broken" /\ tree' = Nowhere
     \/ image = "whole" /\ status' = "up" /\ tree' = saved
  /\ UNCHANGED <<saved, image>>

Next == Call \/ Save \/ Saved \/ Crash \/ Mount

Spec == Init /\ [][Next]_vars
=============================================================================
