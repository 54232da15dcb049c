----------------------------- MODULE Allocator -----------------------------
(***************************************************************************)
(* What a program may count on when it calls malloc(), free() and          *)
(* realloc(): the memory it holds is a set of pieces that never overlap,   *)
(* and nobody takes a piece away but the program itself.                   *)
(***************************************************************************)
EXTENDS Integers

VARIABLE pieces   \* the pieces held: [at, first, size], first a byte of mapping at

Bytes(x) == x.first .. x.first + x.size - 1

Apart(x, y) == x.at # y.at \/ Bytes(x) \cap Bytes(y) = {}

Init == pieces = {}

\* malloc() and calloc()
Give(x) == /\ \A y \in pieces : Apart(x, y)
           /\ pieces' = pieces \cup {x}

\* free()
Return(x) == x \in pieces /\ pieces' = pieces \ {x}

\* realloc(): a piece of another size, in the same place or elsewhere.
Exchange(x, new) ==
  /\ x \in pieces
  /\ \A y \in pieces \ {x} : Apart(new, y)
  /\ pieces' = (pieces \ {x}) \cup {new}

Next == \/ \E x \in pieces : Return(x)
        \/ \E new \in pieces' : Give(new) \/ \E x \in pieces : Exchange(x, new)

Spec == Init /\ [][Next]_pieces
=============================================================================
