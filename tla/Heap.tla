-------------------------------- MODULE Heap --------------------------------
(***************************************************************************)
(* The allocator of src/malloc: blocks mapped from the system in three     *)
(* sizes, each cut into regions that are linked both ways.                 *)
(*                                                                         *)
(* A region is named by the offset of its header in its block; offset 0 is *)
(* the block's own header, so it stands for NULL.  Where mmap() puts a     *)
(* block is any place without one.  The contents of the memory and the     *)
(* counters of get_stats() are left out.                                   *)
(***************************************************************************)
EXTENDS Integers, Sequences, FiniteSets

CONSTANTS
  Place,       \* where mmap() can put a block
  MaxBlocks,   \* MAX_BLOCKS
  Small, Medium, Large,   \* the sizes of a block
  BlockHdr,    \* sizeof(struct block)
  RegionHdr,   \* sizeof(struct region)
  MinSize,     \* MIN_SIZE
  Word,        \* SIZE_MAX + 1
  Requests,    \* the sizes programs ask for
  Builds,      \* the find_in_block() compiled in: FIRST_FIT, BEST_FIT
  Careful      \* TRUE: no program asks for almost SIZE_MAX bytes, shrinks a region
               \* that a free one follows, or meets a fault of realloc()

Classes == {Small, Medium, Large}
Hdrs == BlockHdr + RegionHdr
Null == 0

ASSUME SizesAssumption ==
  /\ BlockHdr \in Nat \ {0} /\ RegionHdr \in Nat \ {0} /\ MinSize \in Nat \ {0}
  /\ Small \in Nat /\ Medium \in Nat /\ Large \in Nat
  /\ Hdrs + MinSize <= Small /\ Small < Medium /\ Medium < Large
  /\ Requests \subseteq Nat
  /\ Word \in Nat /\ Large < Word
ASSUME PlacesAssumption == IsFiniteSet(Place) /\ MaxBlocks \in Nat
ASSUME CarefulAssumption == Careful => \A n \in Requests : n + 4 <= Word
ASSUME BuildsAssumption == Builds \subseteq {"FIRST_FIT", "BEST_FIT"} /\ Careful \in BOOLEAN

VARIABLES
  heap,     \* the heap, see below
  held,     \* the pointers programs hold: <<place, region, bytes asked for>>
  crashed   \* realloc() dereferenced NULL, or returned a region that is not the
            \* caller's or too small: what follows is not modelled

vars == <<heap, held, crashed>>

(***************************************************************************)
(* heap.len[p]   length of the block mapped at p, 0 for none               *)
(* heap.reg[p]   its regions: offset of the header |-> struct region       *)
(* heap.list[c]  small_blocks, medium_blocks or large_blocks               *)
(* heap.mapped   blocks_mapped                                             *)
(***************************************************************************)
NoRegions == [o \in {} |-> o]

Init ==
  /\ heap = [len |-> [p \in Place |-> 0], reg |-> [p \in Place |-> NoRegions],
             list |-> [c \in Classes |-> <<>>], mapped |-> 0]
  /\ held = {}
  /\ crashed = FALSE

\* The block at p with the regions f.
Put(h, p, f) ==
  [len |-> h.len, reg |-> [q \in Place |-> IF q = p THEN f ELSE h.reg[q]],
   list |-> h.list, mapped |-> h.mapped]

-----------------------------------------------------------------------------
(* Regions f of one block.                                                 *)

\* A struct region.
Header(size, free, next, prev) ==
  [size |-> size, free |-> free, next |-> next, prev |-> prev]

End(f, o) == o + RegionHdr + f[o].size

\* A region whose neighbour exists and is free.
NextFree(f, o) == f[o].next # Null /\ f[f[o].next].free
PrevFree(f, o) == f[o].prev # Null /\ f[f[o].prev].free

\* Seeded fault: the region after the new one keeps its prev.
SplitUnlinked(f, o, size) ==
  LET n == o + RegionHdr + size
  IN  IF f[o].size < size + RegionHdr + MinSize THEN f
      ELSE [x \in DOMAIN f \cup {n} |->
              IF x = n THEN Header(f[o].size - size - RegionHdr, TRUE, f[o].next, o)
              ELSE IF x = o THEN Header(size, f[o].free, n, f[o].prev)
              ELSE f[x]]

\* Seeded fault: the rest of the region may be too small for a header.
SplitAlways(f, o, size) ==
  LET n == o + RegionHdr + size
  IN  [x \in DOMAIN f \cup {n} |->
         IF x = n THEN Header(f[o].size - size - RegionHdr, TRUE, f[o].next, o)
         ELSE IF x = o THEN Header(size, f[o].free, n, f[o].prev)
         ELSE IF x = f[o].next THEN Header(f[x].size, f[x].free, f[x].next, n)
         ELSE f[x]]

\* split(): what o does not need becomes a free region, if it is big enough.
Split(f, o, size) ==
  LET n == o + RegionHdr + size
  IN  IF f[o].size < size + RegionHdr + MinSize THEN f
      ELSE [x \in DOMAIN f \cup {n} |->
              IF x = n THEN Header(f[o].size - size - RegionHdr, TRUE, f[o].next, o)
              ELSE IF x = o THEN Header(size, f[o].free, n, f[o].prev)
              ELSE IF x = f[o].next THEN Header(f[x].size, f[x].free, f[x].next, n)
              ELSE f[x]]

\* merge(): o takes in the region after it.
Merge(f, o) ==
  LET n == f[o].next
  IN  IF n = Null THEN f
      ELSE [x \in DOMAIN f \ {n} |->
              IF x = o THEN Header(f[o].size + RegionHdr + f[n].size, f[o].free,
                                  f[n].next, f[o].prev)
              ELSE IF x = f[n].next THEN Header(f[x].size, f[x].free, f[x].next, o)
              ELSE f[x]]

Mark(f, o, free) ==
  [f EXCEPT ![o] = Header(f[o].size, free, f[o].next, f[o].prev)]

\* The region coalesce(o) returns, and the regions it leaves.
Coalescent(f, o) == IF PrevFree(f, o) THEN f[o].prev ELSE o

\* Seeded fault: coalesce() looks at one neighbour only.
CoalesceOnce(f, o) ==
  IF PrevFree(f, o) THEN Merge(f, f[o].prev)
  ELSE IF NextFree(f, o) THEN Merge(f, o) ELSE f

Coalesce(f, o) ==
  LET q == Coalescent(f, o)
      g == IF PrevFree(f, o) THEN Merge(f, q) ELSE f
  IN  IF NextFree(g, q) THEN Merge(g, q) ELSE g

-----------------------------------------------------------------------------
(* Blocks.                                                                 *)

\* size_that_fits()
SizeThatFits(size) ==
  CHOOSE c \in Classes : /\ size + Hdrs <= c
                         /\ \A d \in Classes : size + Hdrs <= d => c <= d

\* The single region of a new block of c bytes.
Fresh(c) == [o \in {BlockHdr} |-> Header(c - Hdrs, TRUE, Null, Null)]

\* grow_heap(), when mmap() maps the new block at p.
Grown(h, size, p) ==
  LET c == SizeThatFits(size)
  IN  [len    |-> [q \in Place |-> IF q = p THEN c ELSE h.len[q]],
       reg    |-> [q \in Place |-> IF q = p THEN Fresh(c) ELSE h.reg[q]],
       list   |-> [h.list EXCEPT ![c] = <<p>> \o @],
       mapped |-> h.mapped + 1]

\* The list s without the block at p: its neighbours are linked to each other,
\* or the next block becomes the first.
Unlinked(s, p) ==
  LET i == CHOOSE j \in DOMAIN s : s[j] = p
  IN  SubSeq(s, 1, i - 1) \o SubSeq(s, i + 1, Len(s))

\* Seeded fault: blocks_mapped is not decremented.
UnmapUncounted(h, p) ==
  [len    |-> [q \in Place |-> IF q = p THEN 0 ELSE h.len[q]],
   reg    |-> [q \in Place |-> IF q = p THEN NoRegions ELSE h.reg[q]],
   list   |-> [h.list EXCEPT ![h.len[p]] = Unlinked(@, p)],
   mapped |-> h.mapped]

\* unmap(): munmap() of a whole mapping does not fail.
Unmap(h, p) ==
  [len    |-> [q \in Place |-> IF q = p THEN 0 ELSE h.len[q]],
   reg    |-> [q \in Place |-> IF q = p THEN NoRegions ELSE h.reg[q]],
   list   |-> [h.list EXCEPT ![h.len[p]] = Unlinked(@, p)],
   mapped |-> h.mapped - 1]

-----------------------------------------------------------------------------
(* malloc() and free(), from one heap to the next.                         *)

\* ALIGN4, which wraps around in a size_t, and MIN_SIZE at least.
Rounded(n) ==
  LET aligned == ((n - 1) \div 4) * 4 + 4
      wrapped == IF aligned < Word THEN aligned ELSE aligned - Word
  IN  IF wrapped > MinSize THEN wrapped ELSE MinSize

\* Seeded fault: find_in_block() does not look at the free flag.
FitsAny(h, p, size) == {o \in DOMAIN h.reg[p] : h.reg[p][o].size >= size}

Fits(h, p, size) ==
  {o \in DOMAIN h.reg[p] : h.reg[p][o].free /\ h.reg[p][o].size >= size}

\* The order find_free_region() searches the blocks in.
Order(h) == h.list[Small] \o h.list[Medium] \o h.list[Large]

Fitting(h, size) ==
  IF size > Large - Hdrs THEN {}
  ELSE {i \in DOMAIN Order(h) : Fits(h, Order(h)[i], size) # {}}

\* find_free_region() finds region o of the block at p.
Found(h, size, p, o) ==
  /\ \E i \in Fitting(h, size) : p = Order(h)[i] /\ \A j \in Fitting(h, size) : i <= j
  /\ o \in Fits(h, p, size)
  /\ \E build \in Builds : \A q \in Fits(h, p, size) :
       CASE build = "FIRST_FIT" -> o <= q
         [] build = "BEST_FIT"  -> \/ h.reg[p][o].size < h.reg[p][q].size
                                   \/ h.reg[p][o].size = h.reg[p][q].size /\ o <= q

\* malloc(n) succeeds with region o of the block at p.
Mallocs(h, n, p, o) ==
  /\ n > 0
  /\ \/ Found(h, Rounded(n), p, o)
     \/ /\ Fitting(h, Rounded(n)) = {}
        /\ h.mapped # MaxBlocks
        /\ Rounded(n) <= Large - Hdrs
        /\ h.len[p] = 0 /\ o = BlockHdr

\* The heap it leaves: the region cut to size and marked.
Malloced(h, n, p, o) ==
  LET g == IF h.len[p] = 0 THEN Grown(h, Rounded(n), p) ELSE h
  IN  Put(g, p, Mark(Split(g.reg[p], o, Rounded(n)), o, FALSE))

\* The heap free() leaves: a block with a single region is unmapped.
Freed(h, p, o) ==
  LET f == Coalesce(Mark(h.reg[p], o, TRUE), o)
      q == Coalescent(Mark(h.reg[p], o, TRUE), o)
  IN  IF f[q].next = Null /\ f[q].prev = Null THEN Unmap(h, p) ELSE Put(h, p, f)

-----------------------------------------------------------------------------
(* The calls.  A program passes free() and realloc() pointers it holds.    *)

\* The regions of the block at p, or the first one of a block still to be mapped.
Regions(p) == DOMAIN heap.reg[p] \cup {BlockHdr}

\* malloc(); calloc() is malloc() and memset(), and realloc() of NULL is malloc().
Malloc(n) ==
  /\ ~crashed
  /\ \E p \in Place : \E o \in Regions(p) :
       /\ Mallocs(heap, n, p, o)
       /\ heap' = Malloced(heap, n, p, o)
       /\ held' = held \cup {<<p, o, n>>}
  /\ UNCHANGED crashed

\* free(), and realloc() to size 0.
Free(p, o, n) ==
  /\ ~crashed
  /\ heap' = Freed(heap, p, o)
  /\ held' = held \ {<<p, o, n>>}
  /\ UNCHANGED crashed

\* What the program holds when realloc() has changed region o into q.
Keeps(p, o, n, q, m) == held' = (held \ {<<p, o, n>>}) \cup {<<p, q, m>>}

\* realloc() to a size the region has.
Shrink(p, o, n, m) ==
  LET f == heap.reg[p]
  IN  /\ ~crashed
      /\ m > 0 /\ m <= f[o].size
      /\ Careful => ~NextFree(f, o)
      /\ heap' = Put(heap, p, Split(f, o, m))
      /\ Keeps(p, o, n, o, m)
      /\ UNCHANGED crashed

\* The sizes realloc() compares: curr alone, with prev, and with the free ones.
WithPrev(f, o) == f[o].size + f[f[o].prev].size + RegionHdr
Coalition(f, o) ==
  f[o].size + (IF NextFree(f, o) THEN f[f[o].next].size + RegionHdr ELSE 0)
            + (IF PrevFree(f, o) THEN f[f[o].prev].size + RegionHdr ELSE 0)

\* realloc() to a larger size: the four ways it tries, in their order.  The
\* first one reads curr->prev when it means curr->next.
NullPrev(f, o)     == NextFree(f, o) /\ f[o].prev = Null
TakesNext(f, o, m) == NextFree(f, o) /\ ~NullPrev(f, o) /\ WithPrev(f, o) >= m
TakesPrev(f, o, m) == PrevFree(f, o) /\ WithPrev(f, o) >= m
TakesBoth(f, o, m) == Coalition(f, o) >= m

\* The caller gets a region in use, of m bytes, that was its own or free.
Sound(f, o, g, q, m) == ~g[q].free /\ g[q].size >= m /\ (q = o \/ f[q].free)

Grow(p, o, n, m) ==
  LET f == heap.reg[p]
      prev == f[o].prev
      Into(q, g) == /\ heap' = Put(heap, p, Split(g, q, m))
                    /\ Keeps(p, o, n, q, m)
                    /\ crashed' = ~Sound(f, o, g, q, m)
  IN  /\ ~crashed
      /\ m > f[o].size
      /\ \/ NullPrev(f, o) /\ crashed' = TRUE /\ UNCHANGED <<heap, held>>
         \/ TakesNext(f, o, m) /\ Into(o, Merge(f, o))
         \/ /\ ~NullPrev(f, o) /\ ~TakesNext(f, o, m) /\ TakesPrev(f, o, m)
            /\ Into(prev, Merge(f, prev))
         \/ /\ ~NullPrev(f, o) /\ ~TakesNext(f, o, m) /\ ~TakesPrev(f, o, m)
            /\ TakesBoth(f, o, m)
            /\ Into(prev, Merge(Merge(f, prev), prev))
      /\ Careful => ~crashed'

\* realloc() when nothing around the region helps: malloc, copy, free.
Move(p, o, n, m) ==
  LET f == heap.reg[p]
  IN  /\ ~crashed
      /\ m > f[o].size
      /\ ~NullPrev(f, o) /\ ~TakesNext(f, o, m) /\ ~TakesPrev(f, o, m) /\ ~TakesBoth(f, o, m)
      /\ \E q \in Place : \E r \in Regions(q) :
           /\ Mallocs(heap, m, q, r)
           /\ heap' = Freed(Malloced(heap, m, q, r), p, o)
           /\ held' = (held \ {<<p, o, n>>}) \cup {<<q, r, m>>}
      /\ UNCHANGED crashed

Next ==
  \/ \E n \in Requests : Malloc(n)
  \/ \E x \in held : \/ Free(x[1], x[2], x[3])
                     \/ \E m \in Requests : \/ Shrink(x[1], x[2], x[3], m)
                                            \/ Grow(x[1], x[2], x[3], m)
                                            \/ Move(x[1], x[2], x[3], m)

Spec == Init /\ [][Next]_vars

-----------------------------------------------------------------------------
(* Properties.                                                             *)

RegionOK(r, len) == /\ r.size \in 1 .. len /\ r.free \in BOOLEAN
                    /\ r.next \in 0 .. len /\ r.prev \in 0 .. len

TypeOK ==
  /\ \A p \in Place : /\ heap.len[p] \in Classes \cup {0}
                      /\ DOMAIN heap.reg[p] \subseteq 0 .. heap.len[p]
                      /\ \A o \in DOMAIN heap.reg[p] : RegionOK(heap.reg[p][o], heap.len[p])
  /\ heap.mapped \in Nat
  /\ \A c \in Classes : heap.list[c] \in Seq(Place)
  /\ held \subseteq Place \X Nat \X Nat
  /\ crashed \in BOOLEAN

\* The regions f fill a block of len bytes from end to end, no two of them
\* overlap, and next and prev agree.
Tiles(f, len) ==
  /\ BlockHdr \in DOMAIN f
  /\ \A o \in DOMAIN f :
       /\ f[o].size > 0 /\ o >= BlockHdr /\ End(f, o) <= len
       /\ IF f[o].next = Null THEN End(f, o) = len
          ELSE f[o].next \in DOMAIN f /\ f[o].next = End(f, o) /\ f[f[o].next].prev = o
       /\ IF f[o].prev = Null THEN o = BlockHdr
          ELSE f[o].prev \in DOMAIN f /\ f[f[o].prev].next = o
       /\ \A q \in DOMAIN f : o < q => End(f, o) <= q

\* Every byte of every mapped block is in exactly one region, however blocks
\* are split and merged.
BlocksTiled ==
  \A p \in Place : IF heap.len[p] = 0 THEN heap.reg[p] = NoRegions
                   ELSE Tiles(heap.reg[p], heap.len[p])

\* The regions in use are those of the pointers that programs hold, one each,
\* and have the bytes that were asked for: nothing is handed out twice or lost.
HeldInUse ==
  /\ \A x \in held : /\ x[2] \in DOMAIN heap.reg[x[1]]
                     /\ ~heap.reg[x[1]][x[2]].free
                     /\ heap.reg[x[1]][x[2]].size >= x[3]
  /\ \A x, y \in held : x[1] = y[1] /\ x[2] = y[2] => x = y
  /\ \A p \in Place : \A o \in DOMAIN heap.reg[p] :
       ~heap.reg[p][o].free => \E x \in held : x[1] = p /\ x[2] = o

\* free() leaves no two free regions side by side, so that a block nobody uses
\* is one region and has been unmapped.
FreeCoalesced ==
  \A p \in Place :
    /\ \A o \in DOMAIN heap.reg[p] :
         heap.reg[p][o].free => ~NextFree(heap.reg[p], o)
    /\ heap.len[p] # 0 => \E o \in DOMAIN heap.reg[p] : ~heap.reg[p][o].free

\* blocks_mapped and the three lists account for every mapping, so that the
\* limit of MAX_BLOCKS is the real one.
BlocksCounted ==
  /\ heap.mapped = Cardinality({p \in Place : heap.len[p] # 0})
  /\ heap.mapped <= MaxBlocks
  /\ \A p \in Place : \A c \in Classes :
       Cardinality({i \in DOMAIN heap.list[c] : heap.list[c][i] = p}) =
         IF heap.len[p] = c THEN 1 ELSE 0

-----------------------------------------------------------------------------
(* The heap implements Allocator.                                          *)

Piece(x) == [at |-> x[1], first |-> x[2] + RegionHdr, size |-> x[3]]

Memory == INSTANCE Allocator WITH pieces <- {Piece(x) : x \in held}

\* What programs hold never overlaps, through any sequence of calls.
ImplementsAllocator == Memory!Spec
=============================================================================
