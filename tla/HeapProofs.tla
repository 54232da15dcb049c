----------------------------- MODULE HeapProofs -----------------------------
(* Proofs about Heap, for any places, sizes and requests.                   *)
EXTENDS Heap, TLAPS, FiniteSetTheorems, SequenceTheorems

Region == [size : Nat, free : BOOLEAN, next : Nat, prev : Nat]

\* What is true of the regions of a block besides Tiles.
Well(f) == f \in [DOMAIN f -> Region] /\ DOMAIN f \subseteq Nat \ {0}

\* The links split() makes: none, or a region n between o and the one after it.
Inserted(f, g, o) ==
  \/ g = f
  \/ \E n \in DOMAIN g :
       /\ n \notin DOMAIN f /\ DOMAIN g = DOMAIN f \cup {n}
       /\ g[o].next = n /\ g[n].next = f[o].next
       /\ \A x \in DOMAIN f \ {o} : g[x].next = f[x].next

\* split() keeps a block tiled and changes nothing but o and the new region.
LEMMA SplitLemma ==
  ASSUME NEW f, NEW len \in Nat, Well(f), Tiles(f, len),
         NEW o \in DOMAIN f, NEW size \in Nat \ {0}, size <= f[o].size
  PROVE  LET g == Split(f, o, size)
         IN  /\ Well(g) /\ Tiles(g, len)
             /\ DOMAIN f \subseteq DOMAIN g
             /\ g[o].free = f[o].free /\ g[o].size >= size
             /\ \A x \in DOMAIN f \ {o} : g[x].free = f[x].free /\ g[x].size = f[x].size
             /\ \A x \in DOMAIN g \ DOMAIN f : g[x].free
             /\ Inserted(f, g, o)
<1> DEFINE g == Split(f, o, size)
           n == o + RegionHdr + size
           s == f[o].next
<1>0. /\ RegionHdr \in Nat \ {0} /\ MinSize \in Nat \ {0} /\ BlockHdr \in Nat \ {0}
      /\ \A x \in DOMAIN f : /\ x \in Nat \ {0} /\ f[x] \in Region
                             /\ f[x].size \in Nat /\ f[x].next \in Nat /\ f[x].prev \in Nat
                             /\ f[x].free \in BOOLEAN
  BY SizesAssumption DEF Well, Region
<1>1. CASE f[o].size < size + RegionHdr + MinSize
  <2>1. g = f
    BY <1>1 DEF Split
  <2> QED BY <2>1 DEF Inserted
<1>2. CASE ~(f[o].size < size + RegionHdr + MinSize)
  <2> DEFINE D == DOMAIN f \cup {n}
             new == Header(f[o].size - size - RegionHdr, TRUE, s, o)
  <2>1. g = [x \in D |-> IF x = n THEN new
                         ELSE IF x = o THEN Header(size, f[o].free, n, f[o].prev)
                         ELSE IF x = s THEN Header(f[x].size, f[x].free, f[x].next, n) ELSE f[x]]
    BY <1>2 DEF Split
  <2>2. n \in Nat \ {0} /\ n > o /\ n # o
    BY <1>0
  <2>3. n + RegionHdr + new.size = End(f, o) /\ new.size \in Nat \ {0} /\ n < End(f, o)
    BY <1>0, <1>2 DEF End, Header
  <2>4. n \notin DOMAIN f
    BY <1>0, <2>2, <2>3 DEF Tiles
  <2>5. s # o /\ (s # Null => s \in DOMAIN f /\ s = End(f, o) /\ f[s].prev = o /\ s # n)
    BY <1>0, <2>3, <2>4 DEF Tiles, End, Null
  <2>6. /\ DOMAIN g = D
        /\ g[n] = new
        /\ g[o] = Header(size, f[o].free, n, f[o].prev)
        /\ s \in DOMAIN f => g[s] = Header(f[s].size, f[s].free, f[s].next, n)
        /\ \A x \in DOMAIN f \ {o, s} : g[x] = f[x]
    BY <2>1, <2>2, <2>4, <2>5
  <2>7. /\ new \in Region
        /\ Header(size, f[o].free, n, f[o].prev) \in Region
        /\ s \in DOMAIN f => Header(f[s].size, f[s].free, f[s].next, n) \in Region
    BY <1>0, <2>2, <2>3 DEF Region, Header
  <2>8. Well(g)
    <3>1. \A x \in D : g[x] \in Region
      BY <2>6, <2>7, <1>0
    <3>2. g = [x \in DOMAIN g |-> g[x]]
      BY <2>1
    <3> QED BY <3>1, <3>2, <2>6, <2>2, <1>0 DEF Well
  <2>9. /\ g[n].size = new.size /\ g[n].free = TRUE /\ g[n].next = s /\ g[n].prev = o
        /\ g[o].size = size /\ g[o].free = f[o].free /\ g[o].next = n /\ g[o].prev = f[o].prev
        /\ \A x \in DOMAIN f \ {o} :
             /\ g[x].size = f[x].size /\ g[x].free = f[x].free /\ g[x].next = f[x].next
             /\ g[x].prev = IF x = s THEN n ELSE f[x].prev
    BY <2>6, <1>0 DEF Region, Header
  <2>10. Tiles(g, len)
    <3>1. BlockHdr \in DOMAIN g /\ \A x \in DOMAIN g : x >= BlockHdr
      BY <1>0, <2>2, <2>6 DEF Tiles
    <3>0. \A x \in DOMAIN g : End(g, x) <= len
      <4>1. End(f, o) <= len /\ \A x \in DOMAIN f : End(f, x) <= len
        BY DEF Tiles
      <4>2. End(g, n) = End(f, o) /\ End(g, o) = n /\ \A x \in DOMAIN f \ {o} : End(g, x) = End(f, x)
        BY <2>9, <2>3 DEF End
      <4>3. End(f, o) \in Nat
        BY <1>0 DEF End
      <4> QED BY <4>1, <4>2, <4>3, <2>2, <2>3, <2>6, <1>0
    <3>2. ASSUME NEW x \in DOMAIN g
          PROVE  /\ g[x].size > 0 /\ x >= BlockHdr
                 /\ IF g[x].next = Null THEN End(g, x) = len
                    ELSE g[x].next \in DOMAIN g /\ g[x].next = End(g, x) /\ g[g[x].next].prev = x
                 /\ IF g[x].prev = Null THEN x = BlockHdr
                    ELSE g[x].prev \in DOMAIN g /\ g[g[x].prev].next = x
                 /\ \A q \in DOMAIN g : x < q => End(g, x) <= q
      <4>1. CASE x = n
        <5>1. End(g, n) = End(f, o)
          BY <2>9, <2>3 DEF End
        <5>2. \A q \in DOMAIN f : n < q => End(f, o) <= q
          BY <2>2, <1>0 DEF Tiles
        <5>3. IF s = Null THEN End(f, o) = len ELSE g[s].prev = n
          BY <2>5, <2>9 DEF Tiles
        <5>4. g[n].size > 0 /\ g[n].prev # Null /\ g[n].prev \in DOMAIN g /\ g[o].next = n
          <6>1. n \in DOMAIN g /\ o \in DOMAIN g
            BY <2>6
          <6>2. g[n].size > 0
            BY <1>0, <1>2, <2>6 DEF Header
          <6>3. o # Null
            BY <1>0 DEF Null
          <6> QED BY <6>1, <6>2, <6>3, <2>9
        <5>5. IF g[n].next = Null THEN End(g, n) = len
              ELSE g[n].next \in DOMAIN g /\ g[n].next = End(g, n) /\ g[s].prev = n
          BY <5>1, <5>3, <2>5, <2>6, <2>9
        <5>6. \A q \in DOMAIN g : n < q => End(g, n) <= q
          BY <5>1, <5>2, <2>2, <2>6
        <5> QED BY <4>1, <5>4, <5>5, <5>6, <3>1, <2>9
      <4>2. CASE x = o
        <5>1. End(g, o) = n
          BY <2>9 DEF End
        <5>2. \A q \in DOMAIN f : o < q => n <= q
          BY <2>2, <2>3, <1>0 DEF Tiles, End
        <5>3. IF f[o].prev = Null THEN o = BlockHdr
              ELSE f[o].prev \in DOMAIN f /\ f[f[o].prev].next = o /\ f[o].prev # o
          BY <2>5 DEF Tiles
        <5>4. /\ g[o].size > 0 /\ g[o].next # Null /\ g[o].next \in DOMAIN g
              /\ g[o].next = End(g, o) /\ g[n].prev = o
          <6>1. n \in DOMAIN g /\ o \in DOMAIN g
            BY <2>6
          <6>2. g[o].size > 0
            BY <2>9
          <6>3. n # Null
            BY <2>2 DEF Null
          <6> QED BY <5>1, <6>1, <6>2, <6>3, <2>9
        <5>5. IF g[o].prev = Null THEN o = BlockHdr
              ELSE g[o].prev \in DOMAIN g /\ g[g[o].prev].next = o
          BY <5>3, <2>6, <2>9
        <5>6. \A q \in DOMAIN g : o < q => End(g, o) <= q
          BY <5>1, <5>2, <2>2, <2>6
        <5> QED BY <4>2, <5>4, <5>5, <5>6, <3>1, <2>9
      <4>3. CASE x \in DOMAIN f \ {o}
        <5>1. End(g, x) = End(f, x)
          BY <4>3, <2>9 DEF End
        <5>2. f[x].next # s \/ s = Null
          BY <4>3, <2>5 DEF Tiles
        <5>3. f[x].prev = o => x = s
          BY <4>3, <1>0 DEF Tiles, Null
        <5>4. x < n => End(f, x) <= n
          <6>1. x < n => x < o
            BY <4>3, <2>2, <2>3, <1>0 DEF Tiles, End
          <6> QED BY <6>1, <4>3, <2>2, <1>0 DEF Tiles, End
        <5>5. /\ f[x].size > 0
              /\ IF f[x].next = Null THEN End(f, x) = len
                 ELSE f[x].next \in DOMAIN f /\ f[x].next = End(f, x) /\ f[f[x].next].prev = x
              /\ IF f[x].prev = Null THEN x = BlockHdr
                 ELSE f[x].prev \in DOMAIN f /\ f[f[x].prev].next = x
              /\ \A q \in DOMAIN f : x < q => End(f, x) <= q
          BY <4>3 DEF Tiles
        <5>6. IF g[x].next = Null THEN End(g, x) = len
              ELSE g[x].next \in DOMAIN g /\ g[x].next = End(g, x) /\ g[g[x].next].prev = x
          <6>1. g[x].next = f[x].next
            BY <4>3, <2>9
          <6>2. CASE f[x].next = Null
            BY <6>1, <6>2, <5>5, <5>1
          <6>3. CASE f[x].next # Null
            <7>1. f[x].next \in DOMAIN f /\ f[x].next # s
              BY <6>3, <5>2, <5>5
            <7>2. f[x].next = o => g[o].prev = f[o].prev
              BY <2>9
            <7>3. g[f[x].next].prev = f[f[x].next].prev
              BY <7>1, <7>2, <2>9
            <7> QED BY <6>1, <6>3, <7>1, <7>3, <5>5, <5>1, <2>6
          <6> QED BY <6>2, <6>3
        <5>7. IF g[x].prev = Null THEN x = BlockHdr
              ELSE g[x].prev \in DOMAIN g /\ g[g[x].prev].next = x
          <6>1. CASE x = s
            BY <6>1, <4>3, <2>2, <2>6, <2>9 DEF Null
          <6>2. CASE x # s
            <7>1. g[x].prev = f[x].prev /\ f[x].prev # o
              BY <6>2, <4>3, <2>9, <5>3
            <7> QED BY <7>1, <5>5, <2>6, <2>9
          <6> QED BY <6>1, <6>2
        <5>8. \A q \in DOMAIN g : x < q => End(g, x) <= q
          BY <5>1, <5>4, <5>5, <2>6
        <5> QED BY <5>5, <5>6, <5>7, <5>8, <3>1, <4>3, <2>9
      <4> QED BY <4>1, <4>2, <4>3, <3>1, <2>6
    <3> QED BY <3>0, <3>1, <3>2 DEF Tiles
  <2>11. /\ DOMAIN f \subseteq DOMAIN g /\ g[o].free = f[o].free /\ g[o].size >= size
         /\ \A x \in DOMAIN f \ {o} : g[x].free = f[x].free /\ g[x].size = f[x].size
    BY <2>6, <2>9, <1>0
  <2>12. \A x \in DOMAIN g \ DOMAIN f : g[x].free
    BY <2>6, <2>9
  <2>13. \E m \in DOMAIN g : /\ m \notin DOMAIN f /\ DOMAIN g = DOMAIN f \cup {m}
                            /\ g[o].next = m /\ g[m].next = f[o].next
                            /\ \A x \in DOMAIN f \ {o} : g[x].next = f[x].next
    <3>1. n \in DOMAIN g /\ n \notin DOMAIN f /\ DOMAIN g = DOMAIN f \cup {n}
      BY <2>4, <2>6
    <3> QED BY <3>1, <2>9
  <2>14. Inserted(f, g, o)
    BY <2>13 DEF Inserted
  <2> QED BY <2>8, <2>10, <2>11, <2>12, <2>14
<1> QED BY <1>1, <1>2

\* What merge() makes of the regions f when n is the region after o.
Merged(f, g, len, o, n) ==
  /\ Well(g) /\ Tiles(g, len)
  /\ n \in DOMAIN f /\ n # o /\ DOMAIN g = DOMAIN f \ {n}
  /\ g[o].free = f[o].free /\ g[o].next = f[n].next /\ g[o].prev = f[o].prev
  /\ g[o].size >= f[o].size
  /\ \A x \in DOMAIN g \ {o} :
       g[x].free = f[x].free /\ g[x].size = f[x].size /\ g[x].next = f[x].next

\* merge() keeps a block tiled: o takes the bytes of the region after it.
LEMMA MergeLemma ==
  ASSUME NEW f, NEW len \in Nat, Well(f), Tiles(f, len),
         NEW o \in DOMAIN f, NEW n, n = f[o].next, n # Null,
         NEW g, g = Merge(f, o)
  PROVE  Merged(f, g, len, o, n)
<1> DEFINE s == f[n].next
<1>0. /\ RegionHdr \in Nat \ {0} /\ BlockHdr \in Nat \ {0}
      /\ \A x \in DOMAIN f : /\ x \in Nat \ {0} /\ f[x] \in Region
                             /\ f[x].size \in Nat /\ f[x].next \in Nat /\ f[x].prev \in Nat
                             /\ f[x].free \in BOOLEAN
  BY SizesAssumption DEF Well, Region
<1>1. n \in DOMAIN f /\ n = End(f, o) /\ f[n].prev = o /\ n # o /\ n > o /\ End(f, n) > n
  BY <1>0 DEF Tiles, End
<1>2. s # o /\ s # n /\ (s # Null => s \in DOMAIN f /\ s = End(f, n) /\ f[s].prev = n)
  BY <1>0, <1>1 DEF Tiles, End, Null
<1> DEFINE big == Header(f[o].size + RegionHdr + f[n].size, f[o].free, s, f[o].prev)
<1>3. g = [x \in DOMAIN f \ {n} |->
             IF x = o THEN big
             ELSE IF x = s THEN Header(f[x].size, f[x].free, f[x].next, o) ELSE f[x]]
  BY DEF Merge
<1>4. /\ DOMAIN g = DOMAIN f \ {n}
      /\ g[o] = big
      /\ s \in DOMAIN f => g[s] = Header(f[s].size, f[s].free, f[s].next, o)
      /\ \A x \in DOMAIN f \ {o, n, s} : g[x] = f[x]
  BY <1>1, <1>2, <1>3
<1>5. big \in Region /\ (s \in DOMAIN f => Header(f[s].size, f[s].free, f[s].next, o) \in Region)
  BY <1>0, <1>1 DEF Region, Header
<1>6. Well(g)
  <2>1. \A x \in DOMAIN f \ {n} : g[x] \in Region
    BY <1>0, <1>4, <1>5
  <2>2. g = [x \in DOMAIN g |-> g[x]]
    BY <1>3
  <2> QED BY <2>1, <2>2, <1>4, <1>0 DEF Well
<1>7. /\ g[o].size = f[o].size + RegionHdr + f[n].size /\ g[o].free = f[o].free
      /\ g[o].next = s /\ g[o].prev = f[o].prev
      /\ \A x \in DOMAIN f \ {o, n} :
           /\ g[x].size = f[x].size /\ g[x].free = f[x].free /\ g[x].next = f[x].next
           /\ g[x].prev = IF x = s THEN o ELSE f[x].prev
  BY <1>4, <1>0 DEF Region, Header
<1>8. End(g, o) = End(f, n)
  BY <1>0, <1>1, <1>7 DEF End
<1>9. Tiles(g, len)
  <2>0. \A x \in DOMAIN g : x >= BlockHdr
    BY <1>4 DEF Tiles
  <2>1. BlockHdr \in DOMAIN g
    <3>1. f[n].prev # Null
      BY <1>0, <1>1 DEF Null
    <3>2. f[BlockHdr].prev = Null
      <4>1. f[BlockHdr].prev # Null => End(f, f[BlockHdr].prev) = BlockHdr
        BY <1>0 DEF Tiles, Null
      <4> QED BY <4>1, <1>0 DEF Tiles, End
    <3> QED BY <3>1, <3>2, <1>4 DEF Tiles
  <2>3. \A x \in DOMAIN g : End(g, x) <= len
    <3>1. \A x \in DOMAIN f : End(f, x) <= len
      BY DEF Tiles
    <3>2. \A x \in DOMAIN f \ {o, n} : End(g, x) = End(f, x)
      BY <1>7 DEF End
    <3> QED BY <3>1, <3>2, <1>1, <1>4, <1>8
  <2>2. ASSUME NEW x \in DOMAIN g
        PROVE  /\ g[x].size > 0 /\ x >= BlockHdr
               /\ IF g[x].next = Null THEN End(g, x) = len
                  ELSE g[x].next \in DOMAIN g /\ g[x].next = End(g, x) /\ g[g[x].next].prev = x
               /\ IF g[x].prev = Null THEN x = BlockHdr
                  ELSE g[x].prev \in DOMAIN g /\ g[g[x].prev].next = x
               /\ \A q \in DOMAIN g : x < q => End(g, x) <= q
    <3>1. CASE x = o
      <4>1. g[o].size > 0
        BY <1>0, <1>1, <1>7
      <4>2. IF s = Null THEN End(g, o) = len
            ELSE s \in DOMAIN g /\ s = End(g, o) /\ g[s].prev = o
        BY <1>1, <1>2, <1>4, <1>7, <1>8 DEF Tiles
      <4>3. IF f[o].prev = Null THEN o = BlockHdr
            ELSE f[o].prev \in DOMAIN f /\ f[f[o].prev].next = o /\ f[o].prev # o /\ f[o].prev # n
        BY <1>1, <1>2 DEF Tiles
      <4>4. IF g[o].prev = Null THEN o = BlockHdr
            ELSE g[o].prev \in DOMAIN g /\ g[g[o].prev].next = o
        BY <4>3, <1>4, <1>7
      <4>5. \A q \in DOMAIN g : o < q => End(g, o) <= q
        <5>1. ASSUME NEW q \in DOMAIN g, o < q PROVE n < q
          <6>1. q \in DOMAIN f /\ q # n /\ q \in Nat /\ n \in Nat
            BY <1>0, <1>1, <1>4
          <6>2. End(f, o) <= q
            BY <6>1, <5>1 DEF Tiles
          <6> QED BY <6>1, <6>2, <1>1
        <5>2. \A q \in DOMAIN f : n < q => End(f, n) <= q
          BY <1>1 DEF Tiles
        <5> QED BY <5>1, <5>2, <1>4, <1>8
      <4> QED BY <3>1, <4>1, <4>2, <4>4, <4>5, <2>0, <1>7
    <3>2. CASE x \in DOMAIN f \ {o, n}
      <4>1. End(g, x) = End(f, x)
        BY <3>2, <1>7 DEF End
      <4>2. /\ f[x].size > 0
            /\ IF f[x].next = Null THEN End(f, x) = len
               ELSE f[x].next \in DOMAIN f /\ f[x].next = End(f, x) /\ f[f[x].next].prev = x
            /\ IF f[x].prev = Null THEN x = BlockHdr
               ELSE f[x].prev \in DOMAIN f /\ f[f[x].prev].next = x
            /\ \A q \in DOMAIN f : x < q => End(f, x) <= q
        BY <3>2 DEF Tiles
      <4>3. f[x].next # n /\ (f[x].next # Null => f[x].next # s)
        BY <3>2, <4>2, <1>0, <1>1, <1>2 DEF Null
      <4>4. IF g[x].next = Null THEN End(g, x) = len
            ELSE g[x].next \in DOMAIN g /\ g[x].next = End(g, x) /\ g[g[x].next].prev = x
        <5>1. g[x].next = f[x].next
          BY <3>2, <1>7
        <5>2. CASE f[x].next = Null
          BY <5>1, <5>2, <4>1, <4>2
        <5>3. CASE f[x].next # Null
          <6>1. f[x].next \in DOMAIN f \ {n} /\ f[x].next # s
            BY <5>3, <4>2, <4>3
          <6>2. g[f[x].next].prev = f[f[x].next].prev
            BY <6>1, <1>7
          <6> QED BY <5>1, <5>3, <6>1, <6>2, <4>1, <4>2, <1>4
        <5> QED BY <5>2, <5>3
      <4>5. IF g[x].prev = Null THEN x = BlockHdr
            ELSE g[x].prev \in DOMAIN g /\ g[g[x].prev].next = x
        <5>1. CASE x = s
          <6>1. g[x].prev = o /\ o # Null /\ o \in DOMAIN g
            BY <5>1, <3>2, <1>0, <1>1, <1>4, <1>7 DEF Null
          <6> QED BY <5>1, <6>1, <1>7
        <5>2. CASE x # s
          <6>1. g[x].prev = f[x].prev
            BY <5>2, <3>2, <1>7
          <6>2. f[x].prev # Null => f[x].prev # n /\ f[x].prev # o
            BY <5>2, <3>2, <4>2
          <6> QED BY <6>1, <6>2, <4>2, <1>4, <1>7
        <5> QED BY <5>1, <5>2
      <4>6. \A q \in DOMAIN g : x < q => End(g, x) <= q
        BY <4>1, <4>2, <1>4
      <4>7. g[x].size > 0
        BY <4>2, <3>2, <1>7
      <4> QED BY <4>4, <4>5, <4>6, <4>7, <2>0
    <3> QED BY <3>1, <3>2, <2>0, <1>4
  <2> QED BY <2>1, <2>2, <2>3 DEF Tiles
<1>10. g[o].size >= f[o].size
  BY <1>0, <1>1, <1>7
<1>11. \A x \in DOMAIN g \ {o} :
         g[x].free = f[x].free /\ g[x].size = f[x].size /\ g[x].next = f[x].next
  BY <1>4, <1>7
<1> QED BY <1>1, <1>4, <1>6, <1>7, <1>9, <1>10, <1>11 DEF Merged

-----------------------------------------------------------------------------
(* What the calls do to the regions of one block.                          *)

Used(f) == {x \in DOMAIN f : ~f[x].free}
Coalesced(f) == \A x \in DOMAIN f : f[x].free => ~NextFree(f, x)

\* The same regions in use, of the same sizes.
SameUse(f, g) == Used(g) = Used(f) /\ \A x \in Used(f) : g[x].size = f[x].size

Marked(f, g, len, o, free) ==
  /\ Well(g) /\ Tiles(g, len) /\ DOMAIN g = DOMAIN f /\ g[o].free = free
  /\ \A x \in DOMAIN f : /\ g[x].size = f[x].size
                         /\ g[x].next = f[x].next /\ g[x].prev = f[x].prev
  /\ \A x \in DOMAIN f \ {o} : g[x].free = f[x].free

LEMMA MarkLemma ==
  ASSUME NEW f, NEW len \in Nat, Well(f), Tiles(f, len),
         NEW o \in DOMAIN f, NEW free \in BOOLEAN, NEW g, g = Mark(f, o, free)
  PROVE  Marked(f, g, len, o, free)
<1> DEFINE r == Header(f[o].size, free, f[o].next, f[o].prev)
<1>0. \A x \in DOMAIN f : f[x] \in Region /\ x \in Nat \ {0}
  BY DEF Well
<1>1. /\ DOMAIN g = DOMAIN f /\ g[o] = r /\ \A x \in DOMAIN f \ {o} : g[x] = f[x]
      /\ g = [x \in DOMAIN g |-> g[x]]
  BY DEF Mark
<1>2. r \in Region
  BY <1>0 DEF Region, Header
<1>3. Well(g)
  <2>1. \A x \in DOMAIN f : g[x] \in Region
    BY <1>0, <1>1, <1>2
  <2> QED BY <2>1, <1>1 DEF Well
<1>4. /\ g[o].free = free
      /\ \A x \in DOMAIN f : /\ g[x].size = f[x].size
                             /\ g[x].next = f[x].next /\ g[x].prev = f[x].prev
      /\ \A x \in DOMAIN f \ {o} : g[x].free = f[x].free
  BY <1>1 DEF Header
<1>5. \A x \in DOMAIN f : End(g, x) = End(f, x)
  BY <1>4 DEF End
<1>6. Tiles(g, len)
  <2>1. \A x \in DOMAIN f :
          /\ f[x].next # Null => f[x].next \in DOMAIN f
          /\ f[x].prev # Null => f[x].prev \in DOMAIN f
    BY DEF Tiles
  <2> QED BY <1>1, <1>4, <1>5, <2>1 DEF Tiles
<1> QED BY <1>1, <1>3, <1>4, <1>6 DEF Marked

\* Region o is in use with size bytes at least, and nothing else has changed.
Taken(f, g, len, o, size) ==
  /\ Well(g) /\ Tiles(g, len) /\ Coalesced(g)
  /\ Used(g) = Used(f) \cup {o}
  /\ g[o].size >= size
  /\ \A x \in Used(f) \ {o} : g[x].size = f[x].size

\* The same without region o.
Released(f, g, len, o) ==
  /\ Well(g) /\ Tiles(g, len) /\ Coalesced(g)
  /\ Used(g) = Used(f) \ {o}
  /\ \A x \in Used(g) : g[x].size = f[x].size

\* What split() leaves of f.
Cut(f, g, len, o, size) ==
  /\ Well(g) /\ Tiles(g, len) /\ DOMAIN f \subseteq DOMAIN g
  /\ g[o].free = f[o].free /\ g[o].size >= size
  /\ \A x \in DOMAIN f \ {o} : g[x].free = f[x].free /\ g[x].size = f[x].size
  /\ \A x \in DOMAIN g \ DOMAIN f : g[x].free
  /\ ~NextFree(f, o) /\ Coalesced(f) =>
       \A x \in DOMAIN g \ {o} : g[x].free => ~NextFree(g, x) \/ g[x].next = o

LEMMA CutLemma ==
  ASSUME NEW f, NEW len \in Nat, Well(f), Tiles(f, len),
         NEW o \in DOMAIN f, NEW size \in Nat \ {0}, size <= f[o].size,
         NEW g, g = Split(f, o, size)
  PROVE  Cut(f, g, len, o, size)
<1>1. /\ Well(g) /\ Tiles(g, len) /\ DOMAIN f \subseteq DOMAIN g
      /\ g[o].free = f[o].free /\ g[o].size >= size
      /\ \A x \in DOMAIN f \ {o} : g[x].free = f[x].free /\ g[x].size = f[x].size
      /\ \A x \in DOMAIN g \ DOMAIN f : g[x].free
  BY SplitLemma
<1>2. Inserted(f, g, o)
  BY SplitLemma
<1>3. ASSUME ~NextFree(f, o), Coalesced(f),
             NEW x \in DOMAIN g \ {o}, g[x].free, NextFree(g, x), g[x].next # o
      PROVE  FALSE
  <2>0. g[x].next # Null /\ g[x].next \in DOMAIN g /\ g[g[x].next].free
    BY <1>1, <1>3 DEF NextFree, Tiles
  <2>1. CASE g = f
    BY <2>1, <1>3 DEF Coalesced
  <2>2. ASSUME NEW n \in DOMAIN g,
               n \notin DOMAIN f, DOMAIN g = DOMAIN f \cup {n},
               g[o].next = n, g[n].next = f[o].next,
               \A y \in DOMAIN f \ {o} : g[y].next = f[y].next
        PROVE  FALSE
    <3>1. CASE x = n
      <4>1. f[o].next # Null /\ f[o].next \in DOMAIN f /\ f[o].next # o
        BY <3>1, <2>0, <2>2, <1>3 DEF Tiles
      <4>2. f[f[o].next].free
        BY <4>1, <3>1, <2>0, <2>2, <1>1
      <4> QED BY <4>1, <4>2, <1>3 DEF NextFree
    <3>2. CASE x # n
      <4>1. x \in DOMAIN f \ {o} /\ f[x].free /\ g[x].next = f[x].next
        BY <3>2, <2>2, <1>1, <1>3
      <4>2. f[x].next \in DOMAIN f /\ f[x].next # o
        BY <4>1, <2>0, <1>3 DEF Tiles
      <4>3. f[f[x].next].free
        BY <4>1, <4>2, <2>0, <1>1
      <4> QED BY <4>1, <4>3, <2>0, <1>3 DEF Coalesced, NextFree
    <3> QED BY <3>1, <3>2
  <2> QED BY <1>2, <2>1, <2>2 DEF Inserted
<1>4. ~NextFree(f, o) /\ Coalesced(f) =>
        \A x \in DOMAIN g \ {o} : g[x].free => ~NextFree(g, x) \/ g[x].next = o
  <2> SUFFICES ASSUME ~NextFree(f, o), Coalesced(f), NEW x \in DOMAIN g \ {o}, g[x].free
               PROVE  ~NextFree(g, x) \/ g[x].next = o
    OBVIOUS
  <2> QED BY <1>3
<1> QED BY <1>1, <1>4 DEF Cut

\* malloc() on a free region of a block.
LEMMA UseLemma ==
  ASSUME NEW f, NEW len \in Nat, Well(f), Tiles(f, len), Coalesced(f),
         NEW o \in DOMAIN f, f[o].free, NEW size \in Nat \ {0}, size <= f[o].size,
         NEW g, g = Mark(Split(f, o, size), o, FALSE)
  PROVE  Taken(f, g, len, o, size)
<1> DEFINE e == Split(f, o, size)
<1>1. Cut(f, e, len, o, size)
  BY CutLemma
<1>2. ~NextFree(f, o)
  BY DEF Coalesced
<1>3. g = Mark(e, o, FALSE)
  OBVIOUS
<1> HIDE DEF e
<1>4. Marked(e, g, len, o, FALSE)
  <2>1. Well(e) /\ Tiles(e, len) /\ o \in DOMAIN e /\ FALSE \in BOOLEAN
    BY <1>1 DEF Cut
  <2> QED BY <2>1, <1>3, MarkLemma
<1>5. Used(g) = Used(f) \cup {o}
  <2>1. DOMAIN g = DOMAIN e /\ DOMAIN f \subseteq DOMAIN e /\ o \in DOMAIN f /\ ~g[o].free
    BY <1>1, <1>4 DEF Cut, Marked
  <2>2. \A x \in DOMAIN f \ {o} : g[x].free = f[x].free
    BY <1>1, <1>4 DEF Cut, Marked
  <2>3. \A x \in DOMAIN g \ DOMAIN f : g[x].free
    BY <1>1, <1>4 DEF Cut, Marked
  <2> QED BY <2>1, <2>2, <2>3 DEF Used
<1>6. ASSUME NEW x \in Used(f) \ {o} PROVE g[x].size = f[x].size
  <2>1. x \in DOMAIN f \ {o}
    BY DEF Used
  <2>2. x \in DOMAIN e /\ e[x].size = f[x].size
    BY <1>1, <2>1 DEF Cut
  <2> QED BY <1>4, <2>1, <2>2 DEF Marked
<1>7. g[o].size >= size
  BY <1>1, <1>4 DEF Cut, Marked
<1>8. Coalesced(g)
  <2> SUFFICES ASSUME NEW x \in DOMAIN g, g[x].free, NextFree(g, x) PROVE FALSE
    BY DEF Coalesced
  <2>1. x # o /\ g[x].next # Null /\ g[x].next # o /\ g[x].next \in DOMAIN g /\ g[g[x].next].free
    BY <1>4 DEF NextFree, Tiles, Marked
  <2>2. x \in DOMAIN e \ {o} /\ e[x].free /\ NextFree(e, x) /\ e[x].next # o
    BY <2>1, <1>4 DEF NextFree, Marked
  <2> QED BY <2>2, <1>1, <1>2 DEF Cut
<1> QED BY <1>4, <1>5, <1>6, <1>7, <1>8 DEF Taken, Marked

\* realloc() to a smaller size, with no free region behind.
LEMMA TrimLemma ==
  ASSUME NEW f, NEW len \in Nat, Well(f), Tiles(f, len), Coalesced(f),
         NEW o \in Used(f), ~NextFree(f, o), NEW size \in Nat \ {0}, size <= f[o].size,
         NEW g, g = Split(f, o, size)
  PROVE  Taken(f, g, len, o, size)
<1>0. o \in DOMAIN f /\ ~f[o].free
  BY DEF Used
<1>1. Cut(f, g, len, o, size)
  BY <1>0, CutLemma
<1>2. Used(g) = Used(f) \cup {o}
  BY <1>0, <1>1 DEF Used, Cut
<1>3. Coalesced(g)
  BY <1>0, <1>1 DEF Cut, Coalesced, NextFree
<1>4. \A x \in Used(f) \ {o} : g[x].size = f[x].size
  BY <1>1 DEF Cut, Used
<1> QED BY <1>1, <1>2, <1>3, <1>4 DEF Taken, Cut

\* realloc() into the region behind, when that is large enough.
LEMMA EnlargeLemma ==
  ASSUME NEW f, NEW len \in Nat, Well(f), Tiles(f, len), Coalesced(f),
         NEW o \in Used(f), NextFree(f, o), NEW g, g = Merge(f, o),
         NEW size \in Nat \ {0}, size <= g[o].size, NEW e, e = Split(g, o, size)
  PROVE  Taken(f, e, len, o, size)
<1> DEFINE n == f[o].next
<1>1. o \in DOMAIN f /\ ~f[o].free /\ n # Null /\ f[n].free
  BY DEF Used, NextFree
<1>2. Merged(f, g, len, o, n)
  BY <1>1, MergeLemma
<1> HIDE DEF n
<1>3. /\ Well(g) /\ Tiles(g, len)
      /\ n \in DOMAIN f /\ n # o /\ DOMAIN g = DOMAIN f \ {n}
      /\ g[o].free = f[o].free /\ g[o].next = f[n].next
      /\ \A x \in DOMAIN g \ {o} :
           g[x].free = f[x].free /\ g[x].size = f[x].size /\ g[x].next = f[x].next
  BY <1>2 DEF Merged
<1>4. Used(g) = Used(f) /\ o \in Used(g)
  BY <1>1, <1>3 DEF Used
<1>5. \A x \in DOMAIN g : NextFree(g, x) => g[x].next \in DOMAIN f \ {o} /\ f[g[x].next].free
  BY <1>1, <1>3 DEF NextFree, Tiles
<1>6. Coalesced(g)
  BY <1>1, <1>3, <1>5 DEF Coalesced, NextFree
<1>7. ~NextFree(g, o)
  BY <1>1, <1>3, <1>5 DEF Coalesced, NextFree
<1>8. Taken(g, e, len, o, size)
  BY <1>3, <1>4, <1>6, <1>7, TrimLemma
<1>9. \A x \in Used(f) \ {o} : x \in Used(g) \ {o} /\ g[x].size = f[x].size
  BY <1>3, <1>4 DEF Used
<1> QED BY <1>4, <1>8, <1>9 DEF Taken

\* coalesce() on a region that has just become free.
LEMMA CoalesceLemma ==
  ASSUME NEW f, NEW len \in Nat, Well(f), Tiles(f, len),
         NEW o \in DOMAIN f, f[o].free,
         \A x \in DOMAIN f : f[x].free /\ NextFree(f, x) => x = o \/ f[x].next = o
  PROVE  LET g == Coalesce(f, o)
             q == Coalescent(f, o)
         IN  /\ Well(g) /\ Tiles(g, len) /\ Coalesced(g) /\ SameUse(f, g)
             /\ q \in DOMAIN g /\ g[q].free
<1> DEFINE q == Coalescent(f, o)
           e == IF PrevFree(f, o) THEN Merge(f, q) ELSE f
           g == IF NextFree(e, q) THEN Merge(e, q) ELSE e
<1>0. g = Coalesce(f, o)
  BY DEF Coalesce
<1>1. /\ Well(e) /\ Tiles(e, len) /\ SameUse(f, e) /\ q \in DOMAIN e /\ e[q].free
      /\ \A x \in DOMAIN e : e[x].free /\ NextFree(e, x) => x = q
  <2>1. CASE PrevFree(f, o)
    <3>1. q \in DOMAIN f /\ f[q].next = o /\ f[q].free /\ f[q].next # Null /\ q # o
      <4>1. q = f[o].prev /\ q # Null /\ f[q].free
        BY <2>1 DEF Coalescent, PrevFree
      <4>2. q \in DOMAIN f /\ f[q].next = o
        BY <4>1 DEF Tiles
      <4>3. o \in Nat \ {0} /\ q \in Nat /\ f[q].size \in Nat /\ RegionHdr \in Nat \ {0}
        BY <4>2, SizesAssumption DEF Well, Region
      <4>4. o = End(f, q)
        BY <4>2, <4>3 DEF Tiles, Null
      <4> QED BY <4>1, <4>2, <4>3, <4>4 DEF End, Null
    <3>0. e = Merge(f, q)
      BY <2>1
    <3> HIDE DEF e, q
    <3>2. /\ Well(e) /\ Tiles(e, len) /\ DOMAIN e = DOMAIN f \ {o}
          /\ e[q].free = f[q].free
          /\ \A x \in DOMAIN e \ {q} :
               e[x].free = f[x].free /\ e[x].size = f[x].size /\ e[x].next = f[x].next
      <4>1. Merged(f, e, len, q, o)
        BY <3>0, <3>1, MergeLemma
      <4> QED BY <4>1 DEF Merged
    <3>3. SameUse(f, e)
      BY <3>1, <3>2 DEF SameUse, Used
    <3>4. ASSUME NEW x \in DOMAIN e, e[x].free, NextFree(e, x), x # q PROVE FALSE
      <4>1. f[x].next # Null /\ f[x].next \in DOMAIN e /\ f[x].next # o
        BY <3>2, <3>4 DEF NextFree, Tiles
      <4>2. f[x].free /\ f[f[x].next].free /\ x \in DOMAIN f /\ x # o
        BY <4>1, <3>1, <3>2, <3>4 DEF NextFree
      <4> QED BY <4>1, <4>2 DEF NextFree
    <3> QED BY <3>1, <3>2, <3>3, <3>4
  <2>2. CASE ~PrevFree(f, o)
    <3>1. q = o /\ e = f
      BY <2>2 DEF Coalescent
    <3>2. ASSUME NEW x \in DOMAIN f, f[x].free, NextFree(f, x), x # o PROVE FALSE
      <4>1. f[x].next = o
        BY <3>2
      <4>2. f[o].prev = x /\ x # Null
        BY <4>1, <3>2 DEF Tiles, NextFree, Well, Null
      <4> QED BY <4>2, <3>2, <2>2 DEF PrevFree
    <3> QED BY <3>1, <3>2 DEF SameUse
  <2> QED BY <2>1, <2>2
<1> HIDE DEF q, e
<1>2. CASE ~NextFree(e, q)
  BY <1>0, <1>1, <1>2 DEF Coalesced, q
<1>3. CASE NextFree(e, q)
  <2>1. e[q].next # Null /\ e[e[q].next].free
    BY <1>3 DEF NextFree
  <2> DEFINE n == e[q].next
  <2>0. g = Merge(e, q)
    BY <1>3
  <2> HIDE DEF g
  <2>2. /\ Well(g) /\ Tiles(g, len) /\ n \in DOMAIN e /\ n # q /\ DOMAIN g = DOMAIN e \ {n}
        /\ g[q].free = e[q].free /\ g[q].next = e[n].next
        /\ \A x \in DOMAIN g \ {q} :
             g[x].free = e[x].free /\ g[x].size = e[x].size /\ g[x].next = e[x].next
    <3>1. Merged(e, g, len, q, n)
      BY <2>0, <2>1, <1>1, MergeLemma
    <3> QED BY <3>1 DEF Merged
  <2>3. SameUse(e, g)
    BY <2>1, <2>2, <1>1 DEF SameUse, Used
  <2>4. ~NextFree(e, n)
    BY <2>1, <2>2, <1>1
  <2>5. Coalesced(g)
    <3> SUFFICES ASSUME NEW x \in DOMAIN g, g[x].free, NextFree(g, x) PROVE FALSE
      BY DEF Coalesced
    <3>1. g[x].next # Null /\ g[x].next \in DOMAIN g /\ g[g[x].next].free
      BY <2>2 DEF NextFree, Tiles
    <3>2. g[x].next # q => e[g[x].next].free
      BY <3>1, <2>2
    <3>3. e[g[x].next].free
      BY <3>1, <3>2, <1>1, <2>2
    <3>4. CASE x = q
      BY <3>4, <3>1, <3>3, <2>2, <2>4 DEF NextFree
    <3>5. CASE x # q
      <4>1. e[x].free /\ NextFree(e, x) /\ x \in DOMAIN e
        BY <3>5, <3>1, <3>3, <2>2 DEF NextFree
      <4> QED BY <4>1, <3>5, <1>1
    <3> QED BY <3>4, <3>5
  <2>6. SameUse(f, g)
    BY <2>3, <1>1 DEF SameUse
  <2>7. q \in DOMAIN g /\ g[q].free
    BY <2>2, <1>1
  <2> QED BY <2>2, <2>5, <2>6, <2>7, <1>0 DEF q, g
<1> QED BY <1>2, <1>3

\* free() of a region in use.
LEMMA ReleaseLemma ==
  ASSUME NEW f, NEW len \in Nat, Well(f), Tiles(f, len), Coalesced(f), NEW o \in Used(f),
         NEW g, g = Coalesce(Mark(f, o, TRUE), o),
         NEW q, q = Coalescent(Mark(f, o, TRUE), o)
  PROVE  Released(f, g, len, o) /\ q \in DOMAIN g /\ g[q].free
<1> DEFINE e == Mark(f, o, TRUE)
<1>0. o \in DOMAIN f /\ ~f[o].free
  BY DEF Used
<1>1. Marked(f, e, len, o, TRUE)
  BY <1>0, MarkLemma
<1>2. g = Coalesce(e, o) /\ q = Coalescent(e, o)
  OBVIOUS
<1> HIDE DEF e
<1>3. ASSUME NEW x \in DOMAIN e, e[x].free, NextFree(e, x), x # o, e[x].next # o PROVE FALSE
  <2>1. x \in DOMAIN f /\ f[x].free /\ f[x].next # Null /\ f[x].next # o /\ e[f[x].next].free
    BY <1>1, <1>3 DEF Marked, NextFree
  <2>2. f[x].next \in DOMAIN f
    BY <2>1 DEF Tiles
  <2> QED BY <2>1, <2>2, <1>1 DEF Marked, NextFree, Coalesced
<1>4. Well(e) /\ Tiles(e, len) /\ o \in DOMAIN e /\ e[o].free
  BY <1>0, <1>1 DEF Marked
<1>5. /\ Well(g) /\ Tiles(g, len) /\ Coalesced(g) /\ SameUse(e, g)
      /\ q \in DOMAIN g /\ g[q].free
  BY <1>2, <1>3, <1>4, CoalesceLemma
<1>6. Used(e) = Used(f) \ {o} /\ \A x \in Used(e) : e[x].size = f[x].size
  BY <1>1 DEF Marked, Used
<1> QED BY <1>5, <1>6 DEF Released, SameUse

-----------------------------------------------------------------------------
(* What the calls do to a heap h, of which programs hold the pointers H.   *)

BlockOK(h, p) ==
  \/ h.len[p] = 0 /\ h.reg[p] = NoRegions
  \/ /\ h.len[p] \in Classes
     /\ Well(h.reg[p]) /\ Tiles(h.reg[p], h.len[p]) /\ Coalesced(h.reg[p])
     /\ Used(h.reg[p]) # {}

HeapOK(h) == \A p \in Place : BlockOK(h, p)

\* The regions in use are those of H, one each, and are large enough.
HoldsOK(h, H) ==
  /\ H \subseteq Place \X Nat \X Nat
  /\ \A x \in H : x[2] \in Used(h.reg[x[1]]) /\ h.reg[x[1]][x[2]].size >= x[3]
  /\ \A x, y \in H : x[1] = y[1] /\ x[2] = y[2] => x = y
  /\ \A p \in Place : \A o \in Used(h.reg[p]) : \E x \in H : x[1] = p /\ x[2] = o

LEMMA ClassesPositive == \A c \in Classes : c \in Nat \ {0} /\ c > Hdrs
  BY SizesAssumption DEF Classes, Hdrs

LEMMA RoundedLarger ==
  ASSUME NEW n \in Nat \ {0}, n + 4 <= Word
  PROVE  Rounded(n) \in Nat \ {0} /\ Rounded(n) >= n
<1> DEFINE aligned == ((n - 1) \div 4) * 4 + 4
<1>1. MinSize \in Nat \ {0} /\ Word \in Nat
  BY SizesAssumption
<1>2. aligned \in Nat /\ aligned >= n /\ aligned < n + 4
  OBVIOUS
<1> HIDE DEF aligned
<1>3. aligned < Word
  BY <1>1, <1>2
<1>4. Rounded(n) = IF aligned > MinSize THEN aligned ELSE MinSize
  BY <1>3 DEF Rounded, aligned
<1> QED BY <1>1, <1>2, <1>4

LEMMA SizeThatFitsLemma ==
  ASSUME NEW size \in Nat \ {0}, size <= Large - Hdrs
  PROVE  SizeThatFits(size) \in Classes /\ size + Hdrs <= SizeThatFits(size)
<1>1. Small \in Nat /\ Medium \in Nat /\ Large \in Nat /\ Hdrs \in Nat
      /\ Small < Medium /\ Medium < Large
  BY SizesAssumption DEF Hdrs
<1>2. \E c \in Classes : size + Hdrs <= c /\ \A d \in Classes : size + Hdrs <= d => c <= d
  <2>1. CASE size + Hdrs <= Small
    BY <2>1, <1>1 DEF Classes
  <2>2. CASE ~(size + Hdrs <= Small) /\ size + Hdrs <= Medium
    BY <2>2, <1>1 DEF Classes
  <2>3. CASE ~(size + Hdrs <= Small) /\ ~(size + Hdrs <= Medium)
    BY <2>3, <1>1 DEF Classes
  <2> QED BY <2>1, <2>2, <2>3
<1> QED BY <1>2 DEF SizeThatFits

\* The only region of a new block.
LEMMA FreshLemma ==
  ASSUME NEW c \in Classes, NEW f, f = Fresh(c)
  PROVE  DOMAIN f = {BlockHdr} /\ Well(f) /\ Tiles(f, c) /\ Coalesced(f)
         /\ Used(f) = {} /\ f[BlockHdr].free
         /\ f[BlockHdr].size = c - Hdrs
<1>1. BlockHdr \in Nat \ {0} /\ RegionHdr \in Nat \ {0} /\ Hdrs = BlockHdr + RegionHdr
      /\ c \in Nat /\ c > Hdrs
  BY SizesAssumption, ClassesPositive DEF Hdrs
<1>2. DOMAIN f = {BlockHdr} /\ f[BlockHdr] = Header(c - Hdrs, TRUE, Null, Null)
  BY DEF Fresh
<1>3. /\ f[BlockHdr].size = c - Hdrs /\ f[BlockHdr].free = TRUE
      /\ f[BlockHdr].next = Null /\ f[BlockHdr].prev = Null
  BY <1>2 DEF Header
<1>4. Well(f)
  <2>1. c - Hdrs \in Nat /\ Null \in Nat
    BY <1>1 DEF Null
  <2>2. Header(c - Hdrs, TRUE, Null, Null) \in Region
    BY <2>1 DEF Region, Header
  <2>3. f \in [DOMAIN f -> Region]
    BY <1>2, <2>2 DEF Fresh
  <2> QED BY <1>1, <1>2, <2>3 DEF Well
<1>5. End(f, BlockHdr) = c
  <2>1. BlockHdr + RegionHdr + (c - (BlockHdr + RegionHdr)) = c
    BY <1>1
  <2> QED BY <1>1, <1>3, <2>1 DEF End
<1>6. Tiles(f, c)
  <2>1. BlockHdr \in DOMAIN f /\ \A o \in DOMAIN f : o = BlockHdr
    BY <1>2
  <2>2. c - Hdrs > 0 /\ BlockHdr >= BlockHdr /\ ~(BlockHdr < BlockHdr)
    BY <1>1
  <2>3. c - Hdrs > 0 /\ c <= c
    BY <1>1
  <2> QED BY <2>1, <2>2, <2>3, <1>3, <1>5 DEF Tiles
<1>7. Coalesced(f) /\ Used(f) = {}
  BY <1>2, <1>3 DEF Coalesced, Used, NextFree
<1> QED BY <1>2, <1>3, <1>4, <1>6, <1>7

\* From h to g only the block at p changes.
Changed(h, g, p, len, e) ==
  /\ g.len[p] = len /\ g.reg[p] = e
  /\ \A q \in Place \ {p} : g.len[q] = h.len[q] /\ g.reg[q] = h.reg[q]

\* The pointers of H that are not to region o at p.
Others(H, p, o) == {x \in H : ~(x[1] = p /\ x[2] = o)}

LEMMA HoldMore ==
  ASSUME NEW h, NEW H, HeapOK(h), HoldsOK(h, H),
         NEW p \in Place, NEW o \in Nat, NEW size \in Nat, NEW m \in Nat, m <= size,
         NEW f, Used(f) = Used(h.reg[p]), \A x \in Used(f) : f[x].size = h.reg[p][x].size,
         NEW e, NEW len \in Classes, Taken(f, e, len, o, size),
         NEW g, Changed(h, g, p, len, e)
  PROVE  HeapOK(g) /\ HoldsOK(g, Others(H, p, o) \cup {<<p, o, m>>})
<1> DEFINE G == Others(H, p, o)
           new == <<p, o, m>>
<1>1. HeapOK(g)
  BY DEF HeapOK, BlockOK, Changed, Taken
<1>2. Used(g.reg[p]) = Used(h.reg[p]) \cup {o}
  BY DEF Changed, Taken
<1>3. g.reg[p][o].size >= m
  <2>1. e[o].size \in Nat
    BY DEF Taken, Well, Region, Used
  <2> QED BY <2>1 DEF Changed, Taken
<1>4. \A x \in Used(h.reg[p]) \ {o} : g.reg[p][x].size = h.reg[p][x].size
  BY DEF Changed, Taken
<1>5. \A q \in Place \ {p} : g.reg[q] = h.reg[q]
  BY DEF Changed
<1>6. G \cup {new} \subseteq Place \X Nat \X Nat
  BY DEF Others, HoldsOK
<1>7. \A x \in G : x[1] \in Place /\ x[2] \in Used(h.reg[x[1]]) /\ h.reg[x[1]][x[2]].size >= x[3]
                   /\ ~(x[1] = p /\ x[2] = o)
  BY DEF Others, HoldsOK
<1>8. \A x \in G \cup {new} : x[2] \in Used(g.reg[x[1]]) /\ g.reg[x[1]][x[2]].size >= x[3]
  <2>1. ASSUME NEW x \in G
        PROVE  x[2] \in Used(g.reg[x[1]]) /\ g.reg[x[1]][x[2]].size >= x[3]
    <3>1. CASE x[1] = p
      BY <3>1, <1>2, <1>4, <1>7
    <3>2. CASE x[1] # p
      BY <3>2, <1>5, <1>7
    <3> QED BY <3>1, <3>2
  <2>2. new[1] = p /\ new[2] = o /\ new[3] = m
    OBVIOUS
  <2> QED BY <2>1, <2>2, <1>2, <1>3
<1>9. \A x, y \in G \cup {new} : x[1] = y[1] /\ x[2] = y[2] => x = y
  <2>1. \A x, y \in G : x[1] = y[1] /\ x[2] = y[2] => x = y
    BY DEF Others, HoldsOK
  <2>2. \A x \in G : ~(x[1] = new[1] /\ x[2] = new[2])
    BY <1>7
  <2>3. \A x, y \in G \cup {new} : x = new \/ x \in G
    OBVIOUS
  <2> HIDE DEF G, new
  <2> QED BY <2>1, <2>2, <2>3
<1>10. ASSUME NEW q \in Place, NEW r \in Used(g.reg[q])
       PROVE  \E x \in G \cup {new} : x[1] = q /\ x[2] = r
  <2>1. CASE q = p /\ r = o
    <3>1. new \in G \cup {new} /\ new[1] = p /\ new[2] = o
      OBVIOUS
    <3> QED BY <3>1, <2>1
  <2>2. CASE ~(q = p /\ r = o)
    <3>1. r \in Used(h.reg[q])
      BY <2>2, <1>2, <1>5
    <3>2. PICK x \in H : x[1] = q /\ x[2] = r
      BY <3>1 DEF HoldsOK
    <3>3. x \in G
      BY <3>2, <2>2 DEF Others
    <3> QED BY <3>2, <3>3
  <2> QED BY <2>1, <2>2
<1> QED BY <1>1, <1>6, <1>8, <1>9, <1>10 DEF HoldsOK

LEMMA HoldLess ==
  ASSUME NEW h, NEW H, HeapOK(h), HoldsOK(h, H),
         NEW p \in Place, NEW o \in Nat,
         NEW e, NEW len \in Classes \cup {0},
         Used(e) = Used(h.reg[p]) \ {o}, \A x \in Used(e) : e[x].size = h.reg[p][x].size,
         NEW g, Changed(h, g, p, len, e), BlockOK(g, p)
  PROVE  HeapOK(g) /\ HoldsOK(g, Others(H, p, o))
<1> DEFINE G == Others(H, p, o)
<1>1. HeapOK(g)
  BY DEF HeapOK, BlockOK, Changed
<1>2. Used(g.reg[p]) = Used(h.reg[p]) \ {o}
      /\ \A x \in Used(g.reg[p]) : g.reg[p][x].size = h.reg[p][x].size
  BY DEF Changed
<1>3. \A q \in Place \ {p} : g.reg[q] = h.reg[q]
  BY DEF Changed
<1>4. G \subseteq Place \X Nat \X Nat /\ \A x, y \in G : x[1] = y[1] /\ x[2] = y[2] => x = y
  BY DEF Others, HoldsOK
<1>5. ASSUME NEW x \in G
      PROVE  x[2] \in Used(g.reg[x[1]]) /\ g.reg[x[1]][x[2]].size >= x[3]
  <2>1. x[1] \in Place /\ x[2] \in Used(h.reg[x[1]]) /\ h.reg[x[1]][x[2]].size >= x[3]
        /\ ~(x[1] = p /\ x[2] = o)
    BY DEF Others, HoldsOK
  <2>2. CASE x[1] = p
    BY <2>1, <2>2, <1>2
  <2>3. CASE x[1] # p
    BY <2>1, <2>3, <1>3
  <2> QED BY <2>2, <2>3
<1>6. ASSUME NEW q \in Place, NEW r \in Used(g.reg[q])
      PROVE  \E x \in G : x[1] = q /\ x[2] = r
  <2>1. ~(q = p /\ r = o) /\ r \in Used(h.reg[q])
    BY <1>2, <1>3
  <2>2. PICK x \in H : x[1] = q /\ x[2] = r
    BY <2>1 DEF HoldsOK
  <2> QED BY <2>1, <2>2 DEF Others
<1> QED BY <1>1, <1>4, <1>5, <1>6 DEF HoldsOK
-----------------------------------------------------------------------------
(* malloc(), free() and realloc() keep the heap well formed.               *)

LEMMA PutLemma ==
  ASSUME NEW h, NEW p \in Place, NEW e, NEW g, g = Put(h, p, e)
  PROVE  Changed(h, g, p, h.len[p], e)
<1>1. g.len = h.len /\ g.reg = [q \in Place |-> IF q = p THEN e ELSE h.reg[q]]
  BY DEF Put
<1> QED BY <1>1 DEF Changed

LEMMA GrownLemma ==
  ASSUME NEW h, NEW p \in Place, NEW size
  PROVE  /\ \A e : Changed(h, Put(Grown(h, size, p), p, e), p, SizeThatFits(size), e)
         /\ Grown(h, size, p).reg[p] = Fresh(SizeThatFits(size))
<1> DEFINE c == SizeThatFits(size)
           f == Fresh(c)
           k == Grown(h, size, p)
<1> HIDE DEF c, f
<1>1. /\ k.len = [q \in Place |-> IF q = p THEN c ELSE h.len[q]]
      /\ k.reg = [q \in Place |-> IF q = p THEN f ELSE h.reg[q]]
  BY DEF Grown, c, f
<1> HIDE DEF k
<1>2. \A e : Changed(k, Put(k, p, e), p, k.len[p], e)
  BY PutLemma
<1>3. k.len[p] = c /\ k.reg[p] = f
  BY <1>1
<1>4. \A q \in Place \ {p} : k.len[q] = h.len[q] /\ k.reg[q] = h.reg[q]
  BY <1>1
<1>5. \A e : Changed(h, Put(k, p, e), p, c, e)
  BY <1>2, <1>3, <1>4 DEF Changed
<1> QED BY <1>3, <1>5 DEF c, f, k

LEMMA UnmapLemma ==
  ASSUME NEW h, NEW p \in Place, NEW g, g = Unmap(h, p)
  PROVE  Changed(h, g, p, 0, NoRegions)
<1>1. /\ g.len = [q \in Place |-> IF q = p THEN 0 ELSE h.len[q]]
      /\ g.reg = [q \in Place |-> IF q = p THEN NoRegions ELSE h.reg[q]]
  BY DEF Unmap
<1> QED BY <1>1 DEF Changed

LEMMA NothingUsed == Used(NoRegions) = {}
  BY DEF Used, NoRegions

\* A pointer that is held is to a region of a mapped block.
LEMMA HeldLemma ==
  ASSUME NEW h, NEW H, HeapOK(h), HoldsOK(h, H), NEW x \in H
  PROVE  /\ x[1] \in Place /\ x[2] \in Nat /\ x[3] \in Nat /\ x = <<x[1], x[2], x[3]>>
         /\ x[2] \in Used(h.reg[x[1]])
         /\ h.len[x[1]] \in Classes /\ h.len[x[1]] \in Nat
         /\ Well(h.reg[x[1]]) /\ Tiles(h.reg[x[1]], h.len[x[1]]) /\ Coalesced(h.reg[x[1]])
<1>1. x \in Place \X Nat \X Nat /\ x[2] \in Used(h.reg[x[1]])
  BY DEF HoldsOK
<1>2. x[1] \in Place /\ x[2] \in Nat /\ x[3] \in Nat /\ x = <<x[1], x[2], x[3]>>
  BY <1>1
<1>3. BlockOK(h, x[1]) /\ h.reg[x[1]] # NoRegions
  BY <1>1, <1>2, NothingUsed DEF HeapOK
<1> QED BY <1>1, <1>2, <1>3, ClassesPositive DEF BlockOK

\* The pointers that are not to the region of x are all the others.
LEMMA OthersLemma ==
  ASSUME NEW h, NEW H, HoldsOK(h, H), NEW x \in H
  PROVE  Others(H, x[1], x[2]) = H \ {x}
  BY DEF HoldsOK, Others

LEMMA MallocLemma ==
  ASSUME NEW h, NEW H, HeapOK(h), HoldsOK(h, H), NEW n \in Nat, n + 4 <= Word,
         NEW p \in Place, NEW o, Mallocs(h, n, p, o), NEW g, g = Malloced(h, n, p, o)
  PROVE  /\ HeapOK(g) /\ HoldsOK(g, H \cup {<<p, o, n>>})
         /\ <<p, o, n>> \notin H
<1> DEFINE size == Rounded(n)
<1>1. size \in Nat \ {0} /\ n <= size
  <2>1. n \in Nat \ {0}
    BY DEF Mallocs
  <2> QED BY <2>1, RoundedLarger
<1> HIDE DEF size
<1>2. ASSUME o \notin Used(h.reg[p])
      PROVE  Others(H, p, o) = H /\ <<p, o, n>> \notin H
  <2>1. \A x \in H : ~(x[1] = p /\ x[2] = o)
    BY <1>2 DEF HoldsOK
  <2>2. <<p, o, n>>[1] = p /\ <<p, o, n>>[2] = o
    OBVIOUS
  <2> QED BY <2>1, <2>2 DEF Others
<1>3. CASE Found(h, size, p, o)
  <2> DEFINE f == h.reg[p]
             e == Mark(Split(f, o, size), o, FALSE)
  <2>1. o \in DOMAIN f /\ f[o].free /\ f[o].size >= size
    BY <1>3 DEF Found, Fits
  <2>2. f # NoRegions
    BY <2>1 DEF NoRegions
  <2>3. h.len[p] \in Classes /\ Well(f) /\ Tiles(f, h.len[p]) /\ Coalesced(f)
    BY <2>2 DEF HeapOK, BlockOK
  <2>4. h.len[p] \in Nat /\ h.len[p] # 0 /\ f[o].size \in Nat /\ o \in Nat
    BY <2>1, <2>3, ClassesPositive DEF Well, Region
  <2>5. g = Put(h, p, e)
    BY <2>4 DEF Malloced, size
  <2> HIDE DEF f, e
  <2>6. Taken(f, e, h.len[p], o, size)
    BY <2>1, <2>3, <2>4, <1>1, UseLemma DEF e
  <2>7. Changed(h, g, p, h.len[p], e)
    BY <2>5, PutLemma
  <2>8. HeapOK(g) /\ HoldsOK(g, Others(H, p, o) \cup {<<p, o, n>>})
    BY <2>3, <2>4, <2>6, <2>7, <1>1, HoldMore DEF f
  <2>9. o \notin Used(h.reg[p])
    BY <2>1 DEF Used, f
  <2> QED BY <2>8, <2>9, <1>2
<1>4. CASE h.len[p] = 0 /\ o = BlockHdr /\ size <= Large - Hdrs
  <2> DEFINE c == SizeThatFits(size)
             f == Fresh(c)
             e == Mark(Split(f, o, size), o, FALSE)
  <2>0. /\ c = SizeThatFits(size)
        /\ f = Fresh(c)
        /\ e = Mark(Split(f, o, size), o, FALSE)
    OBVIOUS
  <2>1. h.reg[p] = NoRegions
    BY <1>4, ClassesPositive DEF HeapOK, BlockOK
  <2>2. g = Put(Grown(h, size, p), p, Mark(Split(Grown(h, size, p).reg[p], o, size), o, FALSE))
    BY <1>4 DEF Malloced, size
  <2> HIDE DEF c, f, e
  <2>3. Grown(h, size, p).reg[p] = f
    BY <2>0, GrownLemma
  <2>4. g = Put(Grown(h, size, p), p, e)
    BY <2>0, <2>2, <2>3
  <2>5. c \in Classes /\ size + Hdrs <= c
    BY <2>0, <1>1, <1>4, SizeThatFitsLemma
  <2>6. Well(f) /\ Tiles(f, c) /\ Coalesced(f) /\ Used(f) = {} /\ f[o].free
        /\ f[o].size = c - Hdrs /\ DOMAIN f = {BlockHdr}
    BY <2>0, <2>5, <1>4, FreshLemma
  <2>7. c \in Nat /\ Hdrs \in Nat /\ size <= f[o].size /\ o \in DOMAIN f /\ o \in Nat
    <3>1. c \in Nat /\ Hdrs \in Nat /\ BlockHdr \in Nat
      BY <2>5, ClassesPositive, SizesAssumption DEF Hdrs
    <3> QED BY <3>1, <2>5, <2>6, <1>1, <1>4
  <2>8. Taken(f, e, c, o, size)
    BY <2>0, <2>6, <2>7, <1>1, UseLemma
  <2>9. Changed(h, g, p, c, e)
    BY <2>0, <2>4, GrownLemma
  <2>10. HeapOK(g) /\ HoldsOK(g, Others(H, p, o) \cup {<<p, o, n>>})
    BY <2>1, <2>5, <2>6, <2>7, <2>8, <2>9, <1>1, NothingUsed, HoldMore
  <2>11. o \notin Used(h.reg[p])
    BY <2>1, NothingUsed
  <2> QED BY <2>10, <2>11, <1>2
<1> QED BY <1>3, <1>4 DEF Mallocs, size

\* free() unmaps the block exactly when no other region of it is in use.
LEMMA LastLemma ==
  ASSUME NEW f, NEW len \in Nat, Well(f), Tiles(f, len), Coalesced(f),
         NEW q \in DOMAIN f, f[q].free
  PROVE  (f[q].next = Null /\ f[q].prev = Null) <=> Used(f) = {}
<1>1. /\ RegionHdr \in Nat \ {0} /\ BlockHdr \in Nat
      /\ \A x \in DOMAIN f : x \in Nat \ {0} /\ f[x].size \in Nat
  BY SizesAssumption DEF Well, Region
<1>2. ASSUME f[q].next = Null, f[q].prev = Null, NEW x \in DOMAIN f PROVE x = q
  <2>1. q = BlockHdr /\ End(f, q) = len /\ x >= q
    BY <1>2 DEF Tiles
  <2>2. q < x => End(f, q) <= x
    BY DEF Tiles
  <2>3. End(f, x) <= len /\ x < End(f, x)
    BY <1>1 DEF Tiles, End
  <2> QED BY <2>1, <2>2, <2>3, <1>1 DEF End
<1>3. f[q].next # Null => f[q].next \in Used(f)
  BY DEF Tiles, Coalesced, NextFree, Used
<1>4. ASSUME f[q].prev # Null PROVE f[q].prev \in Used(f)
  <2>1. f[q].prev \in DOMAIN f /\ f[f[q].prev].next = q /\ q # Null
    BY <1>1, <1>4 DEF Tiles, Null
  <2> QED BY <2>1 DEF Coalesced, NextFree, Used
<1>5. f[q].next = Null /\ f[q].prev = Null => Used(f) = {}
  BY <1>2 DEF Used
<1> QED BY <1>3, <1>4, <1>5

LEMMA FreeLemma ==
  ASSUME NEW h, NEW H, HeapOK(h), HoldsOK(h, H), NEW x \in H,
         NEW g, g = Freed(h, x[1], x[2])
  PROVE  HeapOK(g) /\ HoldsOK(g, H \ {x})
<1> DEFINE p == x[1]
           o == x[2]
           f == h.reg[p]
           len == h.len[p]
           e == Coalesce(Mark(f, o, TRUE), o)
           q == Coalescent(Mark(f, o, TRUE), o)
<1>1. /\ p \in Place /\ o \in Nat /\ o \in Used(f) /\ len \in Classes /\ len \in Nat
      /\ Well(f) /\ Tiles(f, len) /\ Coalesced(f)
  BY HeldLemma
<1>2. g = IF e[q].next = Null /\ e[q].prev = Null THEN Unmap(h, p) ELSE Put(h, p, e)
  BY DEF Freed
<1>3. e = Coalesce(Mark(f, o, TRUE), o) /\ q = Coalescent(Mark(f, o, TRUE), o)
  OBVIOUS
<1>4. Others(H, p, o) = H \ {x}
  BY OthersLemma
<1> HIDE DEF p, o, e, q
<1>5. Released(f, e, len, o) /\ q \in DOMAIN e /\ e[q].free
  BY <1>1, <1>3, ReleaseLemma
<1>6. /\ Well(e) /\ Tiles(e, len) /\ Coalesced(e) /\ Used(e) = Used(f) \ {o}
      /\ \A y \in Used(e) : e[y].size = f[y].size
  BY <1>5 DEF Released
<1>7. (e[q].next = Null /\ e[q].prev = Null) <=> Used(e) = {}
  BY <1>1, <1>5, <1>6, LastLemma
<1>8. CASE Used(e) = {}
  <2>1. Changed(h, g, p, 0, NoRegions)
    BY <1>1, <1>2, <1>7, <1>8, UnmapLemma
  <2>2. BlockOK(g, p)
    BY <2>1 DEF BlockOK, Changed
  <2>3. /\ Used(NoRegions) = Used(h.reg[p]) \ {o}
        /\ \A y \in Used(NoRegions) : NoRegions[y].size = h.reg[p][y].size
    BY <1>6, <1>8, NothingUsed
  <2>4. 0 \in Classes \cup {0}
    OBVIOUS
  <2>5. HeapOK(g) /\ HoldsOK(g, Others(H, p, o))
    <3> HIDE DEF f, len
    <3> QED BY <2>1, <2>2, <2>3, <2>4, <1>1, HoldLess
  <2> QED BY <2>5, <1>4
<1>9. CASE Used(e) # {}
  <2>1. Changed(h, g, p, len, e)
    BY <1>1, <1>2, <1>7, <1>9, PutLemma
  <2>2. BlockOK(g, p)
    BY <2>1, <1>1, <1>6, <1>9 DEF BlockOK, Changed
  <2>3. /\ Used(e) = Used(h.reg[p]) \ {o} /\ len \in Classes \cup {0}
        /\ \A y \in Used(e) : e[y].size = h.reg[p][y].size
    BY <1>1, <1>6
  <2>4. HeapOK(g) /\ HoldsOK(g, Others(H, p, o))
    <3> HIDE DEF f, len
    <3> QED BY <2>1, <2>2, <2>3, <1>1, HoldLess
  <2> QED BY <2>4, <1>4
<1> QED BY <1>8, <1>9

LEMMA ShrinkLemma ==
  ASSUME NEW h, NEW H, HeapOK(h), HoldsOK(h, H), NEW x \in H, NEW m \in Nat, m > 0,
         m <= h.reg[x[1]][x[2]].size, ~NextFree(h.reg[x[1]], x[2]),
         NEW g, g = Put(h, x[1], Split(h.reg[x[1]], x[2], m))
  PROVE  HeapOK(g) /\ HoldsOK(g, (H \ {x}) \cup {<<x[1], x[2], m>>})
<1> DEFINE p == x[1]
           o == x[2]
           f == h.reg[p]
           len == h.len[p]
           e == Split(f, o, m)
<1>1. /\ p \in Place /\ o \in Nat /\ o \in Used(f) /\ len \in Classes /\ len \in Nat
      /\ Well(f) /\ Tiles(f, len) /\ Coalesced(f)
  BY HeldLemma
<1>2. g = Put(h, p, e) /\ e = Split(f, o, m) /\ m <= f[o].size /\ ~NextFree(f, o)
  OBVIOUS
<1>3. Others(H, p, o) = H \ {x}
  BY OthersLemma
<1> HIDE DEF p, o, e
<1>4. Taken(f, e, len, o, m)
  BY <1>1, <1>2, TrimLemma
<1>5. Changed(h, g, p, len, e)
  BY <1>1, <1>2, PutLemma
<1>6. m <= m /\ Used(f) = Used(h.reg[p]) /\ \A y \in Used(f) : f[y].size = h.reg[p][y].size
  OBVIOUS
<1>7. HeapOK(g) /\ HoldsOK(g, Others(H, p, o) \cup {<<p, o, m>>})
  <2> HIDE DEF f, len
  <2> QED BY <1>1, <1>4, <1>5, <1>6, HoldMore
<1> QED BY <1>3, <1>7 DEF p, o

\* Of the ways to grow, only the one into the region behind can be sound.
LEMMA SoundLemma ==
  ASSUME NEW h, NEW H, HeapOK(h), HoldsOK(h, H), NEW x \in H, NEW m \in Nat,
         NEW f, f = h.reg[x[1]], NEW o, o = x[2], m > f[o].size,
         NEW q, NEW g, Sound(f, o, g, q, m),
         \/ q = o /\ g = Merge(f, o) /\ TakesNext(f, o, m)
         \/ q = f[o].prev /\ g = Merge(f, q) /\ TakesPrev(f, o, m)
         \/ /\ q = f[o].prev /\ g = Merge(Merge(f, q), q) /\ TakesBoth(f, o, m)
            /\ ~NullPrev(f, o)
  PROVE  q = o /\ g = Merge(f, o) /\ NextFree(f, o) /\ m <= g[o].size
<1> DEFINE len == h.len[x[1]]
<1>1. /\ o \in DOMAIN f /\ ~f[o].free /\ len \in Nat
      /\ Well(f) /\ Tiles(f, len)
  BY HeldLemma DEF Used
<1>2. RegionHdr \in Nat \ {0} /\ f[o].size \in Nat /\ o \in Nat \ {0}
  BY <1>1, SizesAssumption DEF Well, Region
<1>3. ~g[q].free /\ g[q].size >= m /\ (q = o \/ f[q].free)
  BY DEF Sound
<1>4. CASE q = o /\ g = Merge(f, o) /\ TakesNext(f, o, m)
  <2>1. Merged(f, g, len, o, f[o].next) /\ NextFree(f, o)
    BY <1>1, <1>4, MergeLemma DEF TakesNext, NextFree
  <2>2. g[o].size \in Nat
    BY <1>1, <2>1 DEF Merged, Well, Region
  <2> QED BY <2>1, <2>2, <1>3, <1>4
<1>5. CASE q = f[o].prev /\ q # Null
  <2>1. q \in DOMAIN f /\ f[q].next = o /\ o # Null
    BY <1>1, <1>2, <1>5 DEF Tiles, Null
  <2>2. q # o
    <3>1. f[q].next = End(f, q)
      BY <2>1, <1>1 DEF Tiles
    <3>2. End(f, o) # o
      BY <1>2 DEF End
    <3> QED BY <3>1, <3>2, <2>1
  <2> DEFINE k == Merge(f, q)
  <2>3. k = Merge(f, q)
    OBVIOUS
  <2> HIDE DEF k
  <2>4. Merged(f, k, len, q, o)
    BY <2>1, <2>3, <1>1, MergeLemma
  <2>5. k[q].free /\ q \in DOMAIN k /\ Well(k) /\ Tiles(k, len)
    BY <2>1, <2>2, <2>4, <1>3 DEF Merged
  <2>6. Merge(k, q)[q].free
    <3>1. CASE k[q].next = Null
      BY <3>1, <2>5 DEF Merge
    <3>2. CASE k[q].next # Null
      <4>1. Merged(k, Merge(k, q), len, q, k[q].next)
        BY <3>2, <2>5, <1>1, MergeLemma
      <4> QED BY <4>1, <2>5 DEF Merged
    <3> QED BY <3>1, <3>2
  <2>7. g = k \/ g = Merge(k, q) \/ q = o
    BY <2>3
  <2> QED BY <2>2, <2>5, <2>6, <2>7, <1>3
<1>6. TakesPrev(f, o, m) => f[o].prev # Null
  BY DEF TakesPrev, PrevFree
<1>7. TakesBoth(f, o, m) /\ ~NullPrev(f, o) => f[o].prev # Null
  <2>1. ASSUME ~NextFree(f, o), ~PrevFree(f, o) PROVE ~TakesBoth(f, o, m)
    BY <2>1, <1>2 DEF TakesBoth, Coalition
  <2> QED BY <2>1 DEF NullPrev, PrevFree
<1> QED BY <1>4, <1>5, <1>6, <1>7

LEMMA GrowLemma ==
  ASSUME NEW h, NEW H, HeapOK(h), HoldsOK(h, H), NEW x \in H, NEW m \in Nat, m > 0,
         NextFree(h.reg[x[1]], x[2]), m <= Merge(h.reg[x[1]], x[2])[x[2]].size,
         NEW g, g = Put(h, x[1], Split(Merge(h.reg[x[1]], x[2]), x[2], m))
  PROVE  HeapOK(g) /\ HoldsOK(g, (H \ {x}) \cup {<<x[1], x[2], m>>})
<1> DEFINE p == x[1]
           o == x[2]
           f == h.reg[p]
           len == h.len[p]
           k == Merge(f, o)
           e == Split(k, o, m)
<1>1. /\ p \in Place /\ o \in Nat /\ o \in Used(f) /\ len \in Classes /\ len \in Nat
      /\ Well(f) /\ Tiles(f, len) /\ Coalesced(f)
  BY HeldLemma
<1>2. /\ g = Put(h, p, e) /\ k = Merge(f, o) /\ e = Split(k, o, m)
      /\ m <= k[o].size /\ NextFree(f, o)
  OBVIOUS
<1>3. Others(H, p, o) = H \ {x}
  BY OthersLemma
<1> HIDE DEF p, o, k, e
<1>4. Taken(f, e, len, o, m)
  BY <1>1, <1>2, EnlargeLemma
<1>5. Changed(h, g, p, len, e)
  BY <1>1, <1>2, PutLemma
<1>6. m <= m /\ Used(f) = Used(h.reg[p]) /\ \A y \in Used(f) : f[y].size = h.reg[p][y].size
  OBVIOUS
<1>7. HeapOK(g) /\ HoldsOK(g, Others(H, p, o) \cup {<<p, o, m>>})
  <2> HIDE DEF f, len
  <2> QED BY <1>1, <1>4, <1>5, <1>6, HoldMore
<1> QED BY <1>3, <1>7 DEF p, o

\* malloc() of a new region, then free() of the old one.
LEMMA MoveLemma ==
  ASSUME NEW h, NEW H, HeapOK(h), HoldsOK(h, H), NEW x \in H, NEW m \in Nat, m + 4 <= Word,
         NEW q \in Place, NEW r, Mallocs(h, m, q, r),
         NEW g, g = Freed(Malloced(h, m, q, r), x[1], x[2])
  PROVE  HeapOK(g) /\ HoldsOK(g, (H \ {x}) \cup {<<q, r, m>>})
<1> DEFINE k == Malloced(h, m, q, r)
           K == H \cup {<<q, r, m>>}
<1>1. HeapOK(k) /\ HoldsOK(k, K) /\ <<q, r, m>> \notin H
  BY MallocLemma
<1>2. g = Freed(k, x[1], x[2]) /\ x \in K
  OBVIOUS
<1>3. K \ {x} = (H \ {x}) \cup {<<q, r, m>>}
  BY <1>1
<1> HIDE DEF k, K
<1>4. HeapOK(g) /\ HoldsOK(g, K \ {x})
  BY <1>1, <1>2, FreeLemma
<1> QED BY <1>3, <1>4

-----------------------------------------------------------------------------
(* The allocator, as long as no program meets a fault of realloc().        *)

\* The inductive invariant.  The lists of blocks have no part in it: malloc()
\* takes a region only because it is free, wherever the list led it.
HeapInv == HeapOK(heap) /\ HoldsOK(heap, held)

LEMMA InitLemma == Init => HeapInv
<1> SUFFICES ASSUME Init PROVE HeapInv
  OBVIOUS
<1>1. \A p \in Place : heap.len[p] = 0 /\ heap.reg[p] = NoRegions
  BY DEF Init
<1>2. held = {}
  BY DEF Init
<1> QED BY <1>1, <1>2, NothingUsed DEF HeapInv, HeapOK, BlockOK, HoldsOK

\* What each call does to the pointers held; in the words of Allocator, Give,
\* Return and Exchange.
Gives(x)         == x \notin held /\ held' = held \cup {x}
Returns(x)       == x \in held /\ held' = held \ {x}
Exchanges(x, y)  == x \in held /\ y \notin held \ {x} /\ held' = (held \ {x}) \cup {y}

LEMMA StepLemma ==
  ASSUME HeapInv, Careful, Next
  PROVE  /\ HeapInv'
         /\ \/ \E x \in held' : Gives(x)
            \/ \E x \in held : Returns(x)
            \/ \E x \in held : \E y \in held' : Exchanges(x, y)
<1>0. /\ HeapOK(heap) /\ HoldsOK(heap, held)
      /\ \A n \in Requests : n \in Nat /\ n + 4 <= Word
  BY SizesAssumption, CarefulAssumption DEF HeapInv
<1>1. ASSUME NEW n \in Requests, Malloc(n)
      PROVE  HeapInv' /\ \E x \in held' : Gives(x)
  <2>0. PICK p \in Place : \E o \in Regions(p) :
          /\ Mallocs(heap, n, p, o)
          /\ heap' = Malloced(heap, n, p, o)
          /\ held' = held \cup {<<p, o, n>>}
    BY <1>1 DEF Malloc
  <2>1. PICK o \in Regions(p) :
          /\ Mallocs(heap, n, p, o)
          /\ heap' = Malloced(heap, n, p, o)
          /\ held' = held \cup {<<p, o, n>>}
    BY <2>0
  <2>2. HeapOK(heap') /\ HoldsOK(heap', held \cup {<<p, o, n>>}) /\ <<p, o, n>> \notin held
    BY <2>1, <1>0, MallocLemma
  <2>3. Gives(<<p, o, n>>) /\ <<p, o, n>> \in held'
    BY <2>1, <2>2 DEF Gives
  <2> QED BY <2>1, <2>2, <2>3 DEF HeapInv
<1>2. ASSUME NEW x \in held PROVE x = <<x[1], x[2], x[3]>>
  BY <1>0, HeldLemma
<1>3. ASSUME NEW x \in held, Free(x[1], x[2], x[3])
      PROVE  HeapInv' /\ Returns(x)
  <2>1. heap' = Freed(heap, x[1], x[2]) /\ held' = held \ {x}
    BY <1>2, <1>3 DEF Free
  <2>2. HeapOK(heap') /\ HoldsOK(heap', held \ {x})
    BY <2>1, <1>0, FreeLemma
  <2> QED BY <2>1, <2>2 DEF HeapInv, Returns
<1>4. ASSUME NEW x \in held, NEW m \in Requests, Shrink(x[1], x[2], x[3], m)
      PROVE  HeapInv' /\ \E y \in held' : Exchanges(x, y)
  <2>1. /\ m > 0 /\ m <= heap.reg[x[1]][x[2]].size /\ ~NextFree(heap.reg[x[1]], x[2])
        /\ heap' = Put(heap, x[1], Split(heap.reg[x[1]], x[2], m))
        /\ held' = (held \ {x}) \cup {<<x[1], x[2], m>>}
    BY <1>2, <1>4 DEF Shrink, Keeps
  <2>2. HeapOK(heap') /\ HoldsOK(heap', (held \ {x}) \cup {<<x[1], x[2], m>>})
    BY <2>1, <1>0, ShrinkLemma
  <2>3. <<x[1], x[2], m>> \notin held \ {x}
    <3>1. <<x[1], x[2], m>>[1] = x[1] /\ <<x[1], x[2], m>>[2] = x[2]
      OBVIOUS
    <3> QED BY <3>1, <1>0 DEF HoldsOK
  <2>4. <<x[1], x[2], m>> \in held' /\ Exchanges(x, <<x[1], x[2], m>>)
    BY <2>1, <2>3 DEF Exchanges
  <2> QED BY <2>1, <2>2, <2>4 DEF HeapInv
<1>5. ASSUME NEW x \in held, NEW m \in Requests, Move(x[1], x[2], x[3], m)
      PROVE  HeapInv' /\ \E y \in held' : Exchanges(x, y)
  <2>0. PICK q \in Place : \E r \in Regions(q) :
          /\ Mallocs(heap, m, q, r)
          /\ heap' = Freed(Malloced(heap, m, q, r), x[1], x[2])
          /\ held' = (held \ {x}) \cup {<<q, r, m>>}
    BY <1>2, <1>5 DEF Move
  <2>1. PICK r \in Regions(q) :
          /\ Mallocs(heap, m, q, r)
          /\ heap' = Freed(Malloced(heap, m, q, r), x[1], x[2])
          /\ held' = (held \ {x}) \cup {<<q, r, m>>}
    BY <2>0
  <2>2. HeapOK(heap') /\ HoldsOK(heap', (held \ {x}) \cup {<<q, r, m>>})
    BY <2>1, <1>0, MoveLemma
  <2>3. <<q, r, m>> \in held' /\ Exchanges(x, <<q, r, m>>)
    BY <2>1, <1>0, MallocLemma DEF Exchanges
  <2> QED BY <2>1, <2>2, <2>3 DEF HeapInv
<1>6. ASSUME NEW x \in held, NEW m \in Requests, Grow(x[1], x[2], x[3], m)
      PROVE  HeapInv' /\ \E y \in held' : Exchanges(x, y)
  <2> DEFINE p == x[1]
             o == x[2]
             f == heap.reg[p]
             prev == f[o].prev
  <2>0. m \in Nat /\ m > f[o].size /\ m > 0
    <3>1. m > f[o].size
      BY <1>6 DEF Grow
    <3>2. f[o].size \in Nat
      BY <1>0, HeldLemma DEF Used, Well, Region
    <3> QED BY <3>1, <3>2, <1>0
  <2>1. \E q, g :
          /\ \/ q = o /\ g = Merge(f, o) /\ TakesNext(f, o, m)
             \/ q = f[o].prev /\ g = Merge(f, q) /\ TakesPrev(f, o, m)
             \/ /\ q = f[o].prev /\ g = Merge(Merge(f, q), q) /\ TakesBoth(f, o, m)
                /\ ~NullPrev(f, o)
          /\ Sound(f, o, g, q, m)
          /\ heap' = Put(heap, p, Split(g, q, m))
          /\ held' = (held \ {x}) \cup {<<p, q, m>>}
    <3>1. ~crashed'
      BY <1>6 DEF Grow
    <3>2. CASE NullPrev(f, o) /\ crashed' = TRUE
      BY <3>1, <3>2
    <3>3. CASE /\ TakesNext(f, o, m)
               /\ heap' = Put(heap, p, Split(Merge(f, o), o, m))
               /\ Keeps(p, o, x[3], o, m) /\ crashed' = ~Sound(f, o, Merge(f, o), o, m)
      BY <3>1, <3>3, <1>2 DEF Keeps
    <3>4. CASE /\ TakesPrev(f, o, m)
               /\ heap' = Put(heap, p, Split(Merge(f, prev), prev, m))
               /\ Keeps(p, o, x[3], prev, m) /\ crashed' = ~Sound(f, o, Merge(f, prev), prev, m)
      BY <3>1, <3>4, <1>2 DEF Keeps
    <3>5. CASE /\ TakesBoth(f, o, m) /\ ~NullPrev(f, o)
               /\ heap' = Put(heap, p, Split(Merge(Merge(f, prev), prev), prev, m))
               /\ Keeps(p, o, x[3], prev, m)
               /\ crashed' = ~Sound(f, o, Merge(Merge(f, prev), prev), prev, m)
      BY <3>1, <3>5, <1>2 DEF Keeps
    <3> QED BY <1>6, <3>2, <3>3, <3>4, <3>5 DEF Grow
  <2>2. PICK q, g :
          /\ \/ q = o /\ g = Merge(f, o) /\ TakesNext(f, o, m)
             \/ q = f[o].prev /\ g = Merge(f, q) /\ TakesPrev(f, o, m)
             \/ /\ q = f[o].prev /\ g = Merge(Merge(f, q), q) /\ TakesBoth(f, o, m)
                /\ ~NullPrev(f, o)
          /\ Sound(f, o, g, q, m)
          /\ heap' = Put(heap, p, Split(g, q, m))
          /\ held' = (held \ {x}) \cup {<<p, q, m>>}
    BY <2>1
  <2>3. q = o /\ g = Merge(f, o) /\ NextFree(f, o) /\ m <= g[o].size
    BY <2>0, <2>2, <1>0, SoundLemma
  <2>4. /\ heap' = Put(heap, x[1], Split(Merge(heap.reg[x[1]], x[2]), x[2], m))
        /\ held' = (held \ {x}) \cup {<<x[1], x[2], m>>}
        /\ NextFree(heap.reg[x[1]], x[2]) /\ m <= Merge(heap.reg[x[1]], x[2])[x[2]].size
    BY <2>2, <2>3
  <2>5. HeapOK(heap') /\ HoldsOK(heap', (held \ {x}) \cup {<<x[1], x[2], m>>})
    BY <2>0, <2>4, <1>0, GrowLemma
  <2>6. <<x[1], x[2], m>> \notin held \ {x}
    <3>1. <<x[1], x[2], m>>[1] = x[1] /\ <<x[1], x[2], m>>[2] = x[2]
      OBVIOUS
    <3> QED BY <3>1, <1>0 DEF HoldsOK
  <2>7. <<x[1], x[2], m>> \in held' /\ Exchanges(x, <<x[1], x[2], m>>)
    BY <2>4, <2>6 DEF Exchanges
  <2> QED BY <2>4, <2>5, <2>7 DEF HeapInv
<1> QED BY <1>1, <1>3, <1>4, <1>5, <1>6 DEF Next

\* The invariant, for any places, sizes and requests.
THEOREM HeapCorrect == ASSUME Careful PROVE Spec => []HeapInv
<1>1. Init => HeapInv
  BY InitLemma
<1>2. HeapInv /\ [Next]_vars => HeapInv'
  <2>1. HeapInv /\ UNCHANGED vars => HeapInv'
    BY DEF HeapInv, vars
  <2> QED BY <2>1, StepLemma
<1> QED BY <1>1, <1>2, PTL DEF Spec

\* The regions of every block fill it, however they are split and merged.
THEOREM TilingCorrect == ASSUME Careful PROVE Spec => []BlocksTiled
<1>1. HeapInv => BlocksTiled
  BY ClassesPositive DEF HeapInv, HeapOK, BlockOK, BlocksTiled
<1> QED BY <1>1, HeapCorrect, PTL

\* What is in use is what programs hold: nothing is handed out twice or lost.
THEOREM HoldingCorrect == ASSUME Careful PROVE Spec => []HeldInUse
<1>1. HeapInv => HeldInUse
  BY DEF HeapInv, HoldsOK, HeldInUse, Used
<1> QED BY <1>1, HeapCorrect, PTL

\* No two free regions are neighbours, and no block without a pointer stays.
THEOREM CoalescingCorrect == ASSUME Careful PROVE Spec => []FreeCoalesced
<1>1. HeapInv => FreeCoalesced
  <2> SUFFICES ASSUME HeapInv, NEW p \in Place
               PROVE  /\ Coalesced(heap.reg[p])
                      /\ heap.len[p] # 0 => Used(heap.reg[p]) # {}
    BY DEF FreeCoalesced, Coalesced, Used
  <2>1. Coalesced(NoRegions)
    BY DEF Coalesced, NoRegions
  <2> QED BY <2>1 DEF HeapInv, HeapOK, BlockOK
<1> QED BY <1>1, HeapCorrect, PTL

-----------------------------------------------------------------------------
(* Heap implements Allocator.                                              *)

Pieces(H) == {Piece(x) : x \in H}

\* Pointers that are held are to pieces of memory that do not overlap.
LEMMA ApartLemma ==
  ASSUME NEW h, NEW H, HeapOK(h), HoldsOK(h, H), NEW x \in H, NEW y \in H, x # y
  PROVE  Memory!Apart(Piece(x), Piece(y)) /\ Piece(x) # Piece(y)
<1> DEFINE f == h.reg[x[1]]
<1>1. /\ x[2] \in Nat /\ x[3] \in Nat /\ x[2] \in Used(f)
      /\ y[2] \in Nat /\ y[3] \in Nat /\ y[2] \in Used(h.reg[y[1]])
      /\ Well(f) /\ Tiles(f, h.len[x[1]])
  BY HeldLemma
<1>2. f[x[2]].size >= x[3] /\ h.reg[y[1]][y[2]].size >= y[3] /\ ~(x[1] = y[1] /\ x[2] = y[2])
  BY DEF HoldsOK
<1>3. \A z : Piece(z).at = z[1] /\ Piece(z).first = z[2] + RegionHdr /\ Piece(z).size = z[3]
  BY DEF Piece
<1>4. RegionHdr \in Nat
  BY SizesAssumption
<1>5. Piece(x) # Piece(y)
  BY <1>1, <1>2, <1>3, <1>4
<1>6. CASE x[1] # y[1]
  BY <1>3, <1>5, <1>6 DEF Memory!Apart
<1>7. CASE x[1] = y[1]
  <2> DEFINE X == x[2] + RegionHdr .. x[2] + RegionHdr + x[3] - 1
             Y == y[2] + RegionHdr .. y[2] + RegionHdr + y[3] - 1
  <2>1. /\ x[2] \in DOMAIN f /\ y[2] \in DOMAIN f /\ x[2] # y[2]
        /\ f[x[2]].size \in Nat /\ f[y[2]].size \in Nat /\ f[y[2]].size >= y[3]
    BY <1>1, <1>2, <1>7 DEF Used, Well, Region
  <2>2. /\ x[2] < y[2] => x[2] + RegionHdr + f[x[2]].size <= y[2]
        /\ y[2] < x[2] => y[2] + RegionHdr + f[y[2]].size <= x[2]
    BY <1>1, <2>1 DEF Tiles, End
  <2>3. \/ x[2] + RegionHdr + x[3] <= y[2]
        \/ y[2] + RegionHdr + y[3] <= x[2]
    BY <2>1, <2>2, <1>1, <1>2, <1>4
  <2>4. X \cap Y = {}
    BY <2>3, <1>1, <1>4
  <2>5. Memory!Bytes(Piece(x)) = X /\ Memory!Bytes(Piece(y)) = Y
    BY <1>3 DEF Memory!Bytes
  <2> QED BY <2>4, <2>5, <1>5 DEF Memory!Apart
<1> QED BY <1>6, <1>7

\* malloc(), free() and realloc() are Give, Return and Exchange of Allocator:
\* what programs hold never overlaps.
THEOREM AllocatorImplemented == ASSUME Careful PROVE Spec => ImplementsAllocator
<1>1. Init => Memory!Init
  BY DEF Init, Memory!Init
<1>2. ASSUME HeapInv, HeapInv', Careful, Next
      PROVE  Memory!Next
  <2>0. /\ \A x, y \in held : x # y => Memory!Apart(Piece(x), Piece(y)) /\ Piece(x) # Piece(y)
        /\ \A x, y \in held' : x # y => Memory!Apart(Piece(x), Piece(y)) /\ Piece(x) # Piece(y)
    BY <1>2, ApartLemma DEF HeapInv
  <2>1. ASSUME NEW x \in held', Gives(x)
        PROVE  /\ \A y \in Pieces(held) : Memory!Apart(Piece(x), y)
               /\ Pieces(held') = Pieces(held) \cup {Piece(x)}
               /\ Piece(x) \in Pieces(held')
    BY <2>0, <2>1 DEF Gives, Pieces
  <2>2. ASSUME NEW x \in held, Returns(x)
        PROVE  Piece(x) \in Pieces(held) /\ Pieces(held') = Pieces(held) \ {Piece(x)}
    BY <2>0, <2>2 DEF Returns, Pieces
  <2>3. ASSUME NEW x \in held, NEW y \in held', Exchanges(x, y)
        PROVE  /\ Piece(x) \in Pieces(held) /\ Piece(y) \in Pieces(held')
               /\ \A z \in Pieces(held) \ {Piece(x)} : Memory!Apart(Piece(y), z)
               /\ Pieces(held') = (Pieces(held) \ {Piece(x)}) \cup {Piece(y)}
    <3>1. x \in held /\ held' = (held \ {x}) \cup {y} /\ y \in held' /\ y \notin held \ {x}
      BY <2>3 DEF Exchanges
    <3>2. \A z \in held \ {x} : Memory!Apart(Piece(y), Piece(z)) /\ Piece(z) # Piece(x)
      BY <3>1, <2>0
    <3>3. \A z \in Pieces(held) \ {Piece(x)} : \E v \in held \ {x} : z = Piece(v)
      BY DEF Pieces
    <3>4. Pieces(held') = (Pieces(held) \ {Piece(x)}) \cup {Piece(y)}
      BY <3>1, <3>2 DEF Pieces
    <3>5. Piece(x) \in Pieces(held) /\ Piece(y) \in Pieces(held')
      BY DEF Pieces
    <3> QED BY <3>2, <3>3, <3>4, <3>5
  <2>4. \/ \E x \in held' : Gives(x)
        \/ \E x \in held : Returns(x)
        \/ \E x \in held : \E y \in held' : Exchanges(x, y)
    BY <1>2, StepLemma
  <2>5. /\ Memory!Next <=> \/ \E a \in Pieces(held) : Memory!Return(a)
                           \/ \E b \in Pieces(held') :
                                 Memory!Give(b) \/ \E a \in Pieces(held) : Memory!Exchange(a, b)
        /\ \A a : Memory!Return(a) <=> a \in Pieces(held) /\ Pieces(held') = Pieces(held) \ {a}
        /\ \A b : Memory!Give(b) <=> /\ \A z \in Pieces(held) : Memory!Apart(b, z)
                                     /\ Pieces(held') = Pieces(held) \cup {b}
        /\ \A a, b : Memory!Exchange(a, b) <=>
             /\ a \in Pieces(held)
             /\ \A z \in Pieces(held) \ {a} : Memory!Apart(b, z)
             /\ Pieces(held') = (Pieces(held) \ {a}) \cup {b}
    BY DEF Memory!Next, Memory!Give, Memory!Return, Memory!Exchange, Pieces
  <2>6. CASE \E x \in held' : Gives(x)
    BY <2>6, <2>1, <2>5
  <2>7. CASE \E x \in held : Returns(x)
    BY <2>7, <2>2, <2>5
  <2>8. CASE \E x \in held : \E y \in held' : Exchanges(x, y)
    <3>1. PICK x \in held, y \in held' : Exchanges(x, y)
      BY <2>8
    <3>2. Memory!Exchange(Piece(x), Piece(y))
      BY <3>1, <2>3, <2>5
    <3> QED BY <3>1, <3>2, <2>3, <2>5
  <2> QED BY <2>4, <2>6, <2>7, <2>8
<1>3. HeapInv /\ HeapInv' /\ [Next]_vars => [Memory!Next]_{Piece(x) : x \in held}
  <2>1. UNCHANGED vars => UNCHANGED {Piece(x) : x \in held}
    BY DEF vars
  <2> QED BY <2>1, <1>2
<1> QED BY <1>1, <1>3, HeapCorrect, PTL DEF Spec, ImplementsAllocator, Memory!Spec

-----------------------------------------------------------------------------
(* The three lists of blocks and the count of them.                        *)

\* The list s is of the places P, each of them once.
Linked(s, P) ==
  /\ s \in Seq(Place)
  /\ \A i \in DOMAIN s : s[i] \in P
  /\ \A i, j \in DOMAIN s : s[i] = s[j] => i = j
  /\ \A p \in P : \E i \in DOMAIN s : s[i] = p

LEMMA LinkLemma ==
  ASSUME NEW s, NEW P \in SUBSET Place, Linked(s, P), NEW p \in Place, p \notin P,
         NEW t, t = <<p>> \o s
  PROVE  Linked(t, P \cup {p})
<1>1. s \in Seq(Place) /\ <<p>> \in Seq(Place) /\ Len(<<p>>) = 1 /\ <<p>>[1] = p
  BY DEF Linked
<1>2. Len(s) \in Nat /\ DOMAIN s = 1 .. Len(s)
  BY <1>1, LenProperties
<1>3. /\ t \in Seq(Place) /\ Len(t) = 1 + Len(s)
      /\ \A i \in 1 .. 1 + Len(s) : t[i] = IF i <= 1 THEN <<p>>[i] ELSE s[i - 1]
  BY <1>1, ConcatProperties
<1>4. DOMAIN t = 1 .. 1 + Len(s)
  BY <1>3, LenProperties
<1>5. /\ t[1] = p
      /\ \A i \in 2 .. 1 + Len(s) : i - 1 \in DOMAIN s /\ t[i] = s[i - 1]
  BY <1>1, <1>2, <1>3
<1>6. \A i \in DOMAIN s : i + 1 \in DOMAIN t /\ i + 1 # 1 /\ t[i + 1] = s[i]
  BY <1>2, <1>4, <1>5
<1>7. \A i \in DOMAIN t : i = 1 \/ i \in 2 .. 1 + Len(s)
  BY <1>2, <1>4
<1>8. \A i \in DOMAIN t : t[i] \in P \cup {p}
  BY <1>5, <1>7 DEF Linked
<1>9. ASSUME NEW i \in DOMAIN t, NEW j \in DOMAIN t, t[i] = t[j] PROVE i = j
  <2>1. CASE i = 1 \/ j = 1
    BY <2>1, <1>5, <1>7, <1>9 DEF Linked
  <2>2. CASE i # 1 /\ j # 1
    <3>1. i \in 2 .. 1 + Len(s) /\ j \in 2 .. 1 + Len(s)
      BY <2>2, <1>7
    <3>2. i - 1 \in DOMAIN s /\ j - 1 \in DOMAIN s /\ s[i - 1] = s[j - 1]
      BY <3>1, <1>5, <1>9
    <3>3. i - 1 = j - 1
      BY <3>2 DEF Linked
    <3> QED BY <3>1, <3>3
  <2> QED BY <2>1, <2>2
<1>10. ASSUME NEW q \in P \cup {p} PROVE \E i \in DOMAIN t : t[i] = q
  <2>1. CASE q = p
    <3>1. 1 \in DOMAIN t
      BY <1>2, <1>4
    <3> QED BY <2>1, <3>1, <1>5
  <2>2. CASE q \in P
    <3>1. PICK i \in DOMAIN s : s[i] = q
      BY <2>2 DEF Linked
    <3> QED BY <3>1, <1>6
  <2> QED BY <2>1, <2>2
<1> QED BY <1>3, <1>8, <1>9, <1>10 DEF Linked

LEMMA UnlinkLemma ==
  ASSUME NEW s, NEW P \in SUBSET Place, Linked(s, P), NEW p \in P,
         NEW t, t = Unlinked(s, p)
  PROVE  Linked(t, P \ {p})
<1> DEFINE i == CHOOSE j \in DOMAIN s : s[j] = p
           n == Len(s)
           a == SubSeq(s, 1, i - 1)
           b == SubSeq(s, i + 1, n)
<1>1. s \in Seq(Place) /\ n \in Nat /\ DOMAIN s = 1 .. n
  BY LenProperties DEF Linked
<1>2. i \in DOMAIN s /\ s[i] = p
  BY DEF Linked
<1>3. t = a \o b
  BY DEF Unlinked
<1> HIDE DEF i, n
<1>4. i \in Nat /\ 1 <= i /\ i <= n
  BY <1>1, <1>2
<1>5. \A k \in 1 .. n : s[k] \in Place
  BY <1>1, ElementOfSeq DEF n
<1>6. /\ a \in Seq(Place) /\ Len(a) = i - 1
      /\ \A k \in 1 .. i - 1 : a[k] = s[k]
  <2>1. 1 \in Int /\ i - 1 \in Int /\ \A k \in 1 .. i - 1 : s[k] \in Place
    BY <1>4, <1>5, <1>1
  <2>2. /\ a \in Seq(Place) /\ Len(a) = IF 1 <= i - 1 THEN i - 1 - 1 + 1 ELSE 0
        /\ \A k \in 1 .. i - 1 - 1 + 1 : a[k] = s[1 + k - 1]
    BY <2>1, SubSeqProperties
  <2> HIDE DEF a
  <2> QED BY <2>2, <1>4
<1>7. /\ b \in Seq(Place) /\ Len(b) = n - i
      /\ \A k \in 1 .. n - i : b[k] = s[i + k]
  <2>1. i + 1 \in Int /\ n \in Int /\ \A k \in i + 1 .. n : s[k] \in Place
    BY <1>4, <1>5, <1>1
  <2>2. /\ b \in Seq(Place) /\ Len(b) = IF i + 1 <= n THEN n - (i + 1) + 1 ELSE 0
        /\ \A k \in 1 .. n - (i + 1) + 1 : b[k] = s[(i + 1) + k - 1]
    BY <2>1, SubSeqProperties
  <2> HIDE DEF b
  <2>3. n - (i + 1) + 1 = n - i /\ Len(b) = n - i
    BY <2>2, <1>4, <1>1
  <2>4. \A k \in 1 .. n - i : (i + 1) + k - 1 = i + k
    BY <1>4
  <2> QED BY <2>2, <2>3, <2>4
<1> HIDE DEF a, b
<1>8. /\ t \in Seq(Place) /\ Len(t) = n - 1
      /\ \A k \in 1 .. n - 1 : t[k] = IF k < i THEN s[k] ELSE s[k + 1]
  <2>1. /\ t \in Seq(Place) /\ Len(t) = Len(a) + Len(b)
        /\ \A k \in 1 .. Len(a) + Len(b) : t[k] = IF k <= Len(a) THEN a[k] ELSE b[k - Len(a)]
    BY <1>3, <1>6, <1>7, ConcatProperties
  <2>2. Len(a) + Len(b) = n - 1
    BY <1>1, <1>4, <1>6, <1>7
  <2>3. ASSUME NEW k \in 1 .. n - 1, k < i PROVE t[k] = s[k]
    BY <2>1, <2>2, <2>3, <1>4, <1>6
  <2>4. ASSUME NEW k \in 1 .. n - 1, ~(k < i) PROVE t[k] = s[k + 1]
    <3>1. k - (i - 1) \in 1 .. n - i /\ i + (k - (i - 1)) = k + 1 /\ ~(k <= i - 1)
      BY <2>4, <1>1, <1>4
    <3>2. t[k] = b[k - (i - 1)]
      BY <3>1, <2>1, <2>2, <1>6
    <3> QED BY <3>1, <3>2, <1>7
  <2> QED BY <2>1, <2>2, <2>3, <2>4
<1>9. DOMAIN t = 1 .. n - 1
  BY <1>8, LenProperties
<1> DEFINE at(k) == IF k < i THEN k ELSE k + 1
<1>10. \A k \in DOMAIN t : at(k) \in DOMAIN s /\ at(k) # i /\ t[k] = s[at(k)]
  BY <1>1, <1>4, <1>8, <1>9
<1>11. \A k, l \in DOMAIN t : at(k) = at(l) => k = l
  BY <1>1, <1>4, <1>9
<1>12. ASSUME NEW m \in DOMAIN s, m # i PROVE \E k \in DOMAIN t : at(k) = m
  <2>1. CASE m < i
    <3>1. m \in DOMAIN t /\ at(m) = m
      BY <2>1, <1>1, <1>4, <1>9, <1>12
    <3> QED BY <3>1
  <2>2. CASE ~(m < i)
    <3>1. m - 1 \in DOMAIN t /\ at(m - 1) = m
      BY <2>2, <1>1, <1>4, <1>9, <1>12
    <3> QED BY <3>1
  <2> QED BY <2>1, <2>2
<1> HIDE DEF at
<1>13. \A k \in DOMAIN t : t[k] \in P \ {p}
  BY <1>2, <1>10 DEF Linked
<1>14. \A k, l \in DOMAIN t : t[k] = t[l] => k = l
  BY <1>10, <1>11 DEF Linked
<1>15. ASSUME NEW q \in P \ {p} PROVE \E k \in DOMAIN t : t[k] = q
  <2>1. PICK m \in DOMAIN s : s[m] = q
    BY DEF Linked
  <2>2. m # i
    BY <2>1, <1>2
  <2> QED BY <2>1, <2>2, <1>10, <1>12
<1> QED BY <1>8, <1>13, <1>14, <1>15 DEF Linked

LEMMA LinkedOnce ==
  ASSUME NEW s, NEW P, Linked(s, P), NEW p
  PROVE  Cardinality({i \in DOMAIN s : s[i] = p}) = IF p \in P THEN 1 ELSE 0
<1>1. CASE p \in P
  <2>1. PICK i \in DOMAIN s : s[i] = p
    BY <1>1 DEF Linked
  <2>2. {j \in DOMAIN s : s[j] = p} = {i}
    BY <2>1 DEF Linked
  <2> QED BY <1>1, <2>2, FS_Singleton
<1>2. CASE p \notin P
  <2>1. {j \in DOMAIN s : s[j] = p} = {}
    BY <1>2 DEF Linked
  <2> QED BY <1>2, <2>1, FS_EmptySet
<1> QED BY <1>1, <1>2

\* The places of the blocks of c bytes, and of all blocks.
OfSize(h, c) == {p \in Place : h.len[p] = c}
Mapped(h)    == {p \in Place : h.len[p] # 0}

Accounted(h) ==
  /\ h.mapped = Cardinality(Mapped(h))
  /\ h.mapped <= MaxBlocks
  /\ h.list = [c \in Classes |-> h.list[c]]
  /\ \A c \in Classes : Linked(h.list[c], OfSize(h, c))

LEMMA MappedFinite ==
  ASSUME NEW h
  PROVE  IsFiniteSet(Mapped(h)) /\ Cardinality(Mapped(h)) \in Nat
<1>1. Mapped(h) \subseteq Place
  BY DEF Mapped
<1> QED BY <1>1, PlacesAssumption, FS_Subset, FS_CardinalityType

\* Only the regions of a block change.
LEMMA PutAccounted ==
  ASSUME NEW h, Accounted(h), NEW p, NEW e, NEW g, g = Put(h, p, e)
  PROVE  Accounted(g)
<1>1. g.len = h.len /\ g.list = h.list /\ g.mapped = h.mapped
  BY DEF Put
<1>2. Mapped(g) = Mapped(h) /\ \A c : OfSize(g, c) = OfSize(h, c)
  BY <1>1 DEF Mapped, OfSize
<1> QED BY <1>1, <1>2 DEF Accounted

\* grow_heap() maps a block where there was none.
LEMMA GrownAccounted ==
  ASSUME NEW h, Accounted(h), NEW p \in Place, NEW size, NEW g, g = Grown(h, size, p),
         h.len[p] = 0, h.mapped # MaxBlocks, SizeThatFits(size) \in Classes
  PROVE  Accounted(g)
<1> DEFINE c == SizeThatFits(size)
<1>1. /\ g.len = [q \in Place |-> IF q = p THEN c ELSE h.len[q]]
      /\ g.list = [h.list EXCEPT ![c] = <<p>> \o @]
      /\ g.mapped = h.mapped + 1
  BY DEF Grown
<1>2. c \in Classes
  OBVIOUS
<1> HIDE DEF c
<1>3. \A d \in Classes : d # 0
  BY ClassesPositive
<1>4. Mapped(g) = Mapped(h) \cup {p} /\ p \notin Mapped(h)
  BY <1>1, <1>2, <1>3 DEF Mapped
<1>5. g.mapped = Cardinality(Mapped(g)) /\ g.mapped <= MaxBlocks
  <2>1. Cardinality(Mapped(g)) = Cardinality(Mapped(h)) + 1
    BY <1>4, MappedFinite, FS_AddElement
  <2>2. h.mapped \in Nat /\ h.mapped <= MaxBlocks /\ h.mapped = Cardinality(Mapped(h))
    BY MappedFinite DEF Accounted
  <2> QED BY <2>1, <2>2, <1>1, PlacesAssumption
<1>6. h.list = [d \in Classes |-> h.list[d]]
  BY DEF Accounted
<1>7. /\ g.list = [d \in Classes |-> g.list[d]]
      /\ g.list[c] = <<p>> \o h.list[c]
      /\ \A d \in Classes \ {c} : g.list[d] = h.list[d]
  BY <1>1, <1>2, <1>6
<1>8. /\ OfSize(g, c) = OfSize(h, c) \cup {p}
      /\ p \notin OfSize(h, c)
      /\ \A d \in Classes \ {c} : OfSize(g, d) = OfSize(h, d)
  BY <1>1, <1>2, <1>3 DEF OfSize
<1>9. Linked(g.list[c], OfSize(g, c))
  <2>1. OfSize(h, c) \in SUBSET Place /\ Linked(h.list[c], OfSize(h, c))
    BY <1>2 DEF OfSize, Accounted
  <2>2. Linked(<<p>> \o h.list[c], OfSize(h, c) \cup {p})
    BY <2>1, <1>8, LinkLemma
  <2> QED BY <2>2, <1>7, <1>8
<1>10. \A d \in Classes : Linked(g.list[d], OfSize(g, d))
  BY <1>7, <1>8, <1>9 DEF Accounted
<1> QED BY <1>5, <1>7, <1>10 DEF Accounted

\* unmap() takes the block out of its list.
LEMMA UnmapAccounted ==
  ASSUME NEW h, Accounted(h), NEW p \in Place, h.len[p] \in Classes,
         NEW g, g = Unmap(h, p)
  PROVE  Accounted(g)
<1> DEFINE c == h.len[p]
<1>1. /\ g.len = [q \in Place |-> IF q = p THEN 0 ELSE h.len[q]]
      /\ g.list = [h.list EXCEPT ![c] = Unlinked(@, p)]
      /\ g.mapped = h.mapped - 1
  BY DEF Unmap
<1>2. c \in Classes /\ c = h.len[p]
  OBVIOUS
<1> HIDE DEF c
<1>3. \A d \in Classes : d # 0
  BY ClassesPositive
<1>4. Mapped(g) = Mapped(h) \ {p} /\ p \in Mapped(h)
  BY <1>1, <1>2, <1>3 DEF Mapped
<1>5. g.mapped = Cardinality(Mapped(g)) /\ g.mapped <= MaxBlocks
  <2>1. Cardinality(Mapped(g)) = Cardinality(Mapped(h)) - 1
    BY <1>4, MappedFinite, FS_RemoveElement
  <2>2. h.mapped \in Nat /\ h.mapped <= MaxBlocks /\ h.mapped = Cardinality(Mapped(h))
    BY MappedFinite DEF Accounted
  <2> QED BY <2>1, <2>2, <1>1, PlacesAssumption
<1>6. h.list = [d \in Classes |-> h.list[d]]
  BY DEF Accounted
<1>7. /\ g.list = [d \in Classes |-> g.list[d]]
      /\ g.list[c] = Unlinked(h.list[c], p)
      /\ \A d \in Classes \ {c} : g.list[d] = h.list[d]
  BY <1>1, <1>2, <1>6
<1>8. /\ OfSize(g, c) = OfSize(h, c) \ {p}
      /\ p \in OfSize(h, c)
      /\ \A d \in Classes \ {c} : OfSize(g, d) = OfSize(h, d)
  BY <1>1, <1>2, <1>3 DEF OfSize
<1>9. Linked(g.list[c], OfSize(g, c))
  <2>1. OfSize(h, c) \in SUBSET Place /\ Linked(h.list[c], OfSize(h, c))
    BY <1>2 DEF OfSize, Accounted
  <2> QED BY <2>1, <1>7, <1>8, UnlinkLemma
<1>10. \A d \in Classes : Linked(g.list[d], OfSize(g, d))
  BY <1>7, <1>8, <1>9 DEF Accounted
<1> QED BY <1>5, <1>7, <1>10 DEF Accounted

LEMMA MallocAccounted ==
  ASSUME NEW h, HeapOK(h), Accounted(h), NEW n \in Nat, n + 4 <= Word,
         NEW p \in Place, NEW o, Mallocs(h, n, p, o), NEW g, g = Malloced(h, n, p, o)
  PROVE  Accounted(g)
<1> DEFINE size == Rounded(n)
           k == IF h.len[p] = 0 THEN Grown(h, size, p) ELSE h
           e == Mark(Split(k.reg[p], o, size), o, FALSE)
<1>1. g = Put(k, p, e)
  BY DEF Malloced
<1>2. size \in Nat \ {0}
  BY RoundedLarger DEF Mallocs
<1>3. Accounted(k)
  <2>1. CASE h.len[p] # 0
    BY <2>1
  <2>2. CASE h.len[p] = 0
    <3>1. h.reg[p] = NoRegions
      BY <2>2, ClassesPositive DEF HeapOK, BlockOK
    <3>2. ~Found(h, size, p, o)
      BY <3>1 DEF Found, Fits, NoRegions
    <3>3. h.mapped # MaxBlocks /\ size <= Large - Hdrs
      BY <3>2 DEF Mallocs
    <3> HIDE DEF size
    <3>4. SizeThatFits(size) \in Classes
      BY <1>2, <3>3, SizeThatFitsLemma
    <3>5. Accounted(Grown(h, size, p))
      BY <2>2, <3>3, <3>4, GrownAccounted
    <3> QED BY <2>2, <3>5
  <2> QED BY <2>1, <2>2
<1> HIDE DEF k, e
<1> QED BY <1>1, <1>3, PutAccounted

LEMMA FreeAccounted ==
  ASSUME NEW h, NEW H, HeapOK(h), HoldsOK(h, H), Accounted(h), NEW x \in H,
         NEW g, g = Freed(h, x[1], x[2])
  PROVE  Accounted(g)
<1>1. x[1] \in Place /\ h.len[x[1]] \in Classes
  BY HeldLemma
<1>2. g = Unmap(h, x[1]) \/ \E e : g = Put(h, x[1], e)
  BY DEF Freed
<1> QED BY <1>1, <1>2, PutAccounted, UnmapAccounted

-----------------------------------------------------------------------------
(* blocks_mapped and the lists, through every call.                        *)

\* The inductive invariant with the lists: the regions do not need them, but
\* they need the regions, for a block that has been found is one of a list.
ListInv == HeapInv /\ Accounted(heap)

LEMMA InitAccounted == Init => Accounted(heap)
<1> SUFFICES ASSUME Init PROVE Accounted(heap)
  OBVIOUS
<1>1. /\ heap.len = [p \in Place |-> 0] /\ heap.mapped = 0
      /\ heap.list = [c \in Classes |-> <<>>]
  BY DEF Init
<1>2. Mapped(heap) = {} /\ \A c \in Classes : OfSize(heap, c) = {}
  BY <1>1, ClassesPositive DEF Mapped, OfSize
<1>3. Linked(<<>>, {})
  BY DEF Linked
<1>4. MaxBlocks \in Nat
  BY PlacesAssumption
<1>5. heap.mapped = Cardinality(Mapped(heap)) /\ heap.mapped <= MaxBlocks
  BY <1>1, <1>2, <1>4, FS_EmptySet
<1> QED BY <1>1, <1>2, <1>3, <1>5 DEF Accounted

LEMMA StepAccounted ==
  ASSUME HeapInv, Accounted(heap), Careful, Next
  PROVE  Accounted(heap')
<1>0. /\ HeapOK(heap) /\ HoldsOK(heap, held)
      /\ \A n \in Requests : n \in Nat /\ n + 4 <= Word
  BY SizesAssumption, CarefulAssumption DEF HeapInv
<1>1. ASSUME NEW n \in Requests, Malloc(n) PROVE Accounted(heap')
  <2>1. PICK p \in Place : \E o \in Regions(p) :
          Mallocs(heap, n, p, o) /\ heap' = Malloced(heap, n, p, o)
    BY <1>1 DEF Malloc
  <2>2. PICK o \in Regions(p) : Mallocs(heap, n, p, o) /\ heap' = Malloced(heap, n, p, o)
    BY <2>1
  <2> QED BY <2>2, <1>0, MallocAccounted
<1>2. ASSUME NEW x \in held, Free(x[1], x[2], x[3]) PROVE Accounted(heap')
  <2>1. heap' = Freed(heap, x[1], x[2])
    BY <1>2 DEF Free
  <2> QED BY <2>1, <1>0, FreeAccounted
<1>3. ASSUME NEW x \in held, NEW m \in Requests,
             Shrink(x[1], x[2], x[3], m) \/ Grow(x[1], x[2], x[3], m)
      PROVE  Accounted(heap')
  <2>1. heap' = heap \/ \E e : heap' = Put(heap, x[1], e)
    <3>1. CASE Shrink(x[1], x[2], x[3], m)
      BY <3>1 DEF Shrink
    <3>2. CASE Grow(x[1], x[2], x[3], m)
      BY <3>2 DEF Grow
    <3> QED BY <1>3, <3>1, <3>2
  <2> QED BY <2>1, PutAccounted
<1>4. ASSUME NEW x \in held, NEW m \in Requests, Move(x[1], x[2], x[3], m)
      PROVE  Accounted(heap')
  <2>1. PICK q \in Place : \E r \in Regions(q) :
          /\ Mallocs(heap, m, q, r)
          /\ heap' = Freed(Malloced(heap, m, q, r), x[1], x[2])
    BY <1>4 DEF Move
  <2>2. PICK r \in Regions(q) : /\ Mallocs(heap, m, q, r)
                                /\ heap' = Freed(Malloced(heap, m, q, r), x[1], x[2])
    BY <2>1
  <2> DEFINE k == Malloced(heap, m, q, r)
             K == held \cup {<<q, r, m>>}
  <2>3. HeapOK(k) /\ HoldsOK(k, K)
    BY <2>2, <1>0, MallocLemma
  <2>4. Accounted(k)
    BY <2>2, <1>0, MallocAccounted
  <2>5. x \in K /\ heap' = Freed(k, x[1], x[2])
    BY <2>2
  <2> HIDE DEF k, K
  <2> QED BY <2>3, <2>4, <2>5, FreeAccounted
<1> QED BY <1>1, <1>2, <1>3, <1>4 DEF Next

LEMMA ListInvariant == ASSUME Careful PROVE Spec => []ListInv
<1>1. Init => ListInv
  BY InitLemma, InitAccounted DEF ListInv
<1>2. ListInv /\ [Next]_vars => ListInv'
  <2>1. ASSUME ListInv, UNCHANGED vars PROVE ListInv'
    <3>1. heap' = heap /\ held' = held
      BY <2>1 DEF vars
    <3> QED BY <2>1, <3>1 DEF ListInv, HeapInv
  <2>2. ASSUME ListInv, Next PROVE ListInv'
    BY <2>2, StepLemma, StepAccounted DEF ListInv
  <2> QED BY <2>1, <2>2
<1> QED BY <1>1, <1>2, PTL DEF Spec

\* grow_heap() and unmap() keep blocks_mapped and the three lists right: each
\* mapped block is in the list of its size, once, and MAX_BLOCKS is the limit.
THEOREM BlocksCountedCorrect == ASSUME Careful PROVE Spec => []BlocksCounted
<1>1. ListInv => BlocksCounted
  <2> SUFFICES ASSUME ListInv PROVE BlocksCounted
    OBVIOUS
  <2>1. heap.mapped = Cardinality({p \in Place : heap.len[p] # 0}) /\ heap.mapped <= MaxBlocks
    BY DEF ListInv, Accounted, Mapped
  <2>2. ASSUME NEW p \in Place, NEW c \in Classes
        PROVE  Cardinality({i \in DOMAIN heap.list[c] : heap.list[c][i] = p}) =
                 IF heap.len[p] = c THEN 1 ELSE 0
    <3>1. Linked(heap.list[c], OfSize(heap, c))
      BY DEF ListInv, Accounted
    <3>2. p \in OfSize(heap, c) <=> heap.len[p] = c
      BY DEF OfSize
    <3> QED BY <3>1, <3>2, LinkedOnce
  <2> QED BY <2>1, <2>2 DEF BlocksCounted
<1> QED BY <1>1, ListInvariant, PTL

\* The types of the variables: every header stays inside its block.
THEOREM TypeCorrect == ASSUME Careful PROVE Spec => []TypeOK
<1> DEFINE Flag == crashed \in BOOLEAN
<1>1. Init => Flag
  BY DEF Init
<1>2. Flag /\ [Next]_vars => Flag'
  <2> SUFFICES ASSUME Flag, [Next]_vars PROVE crashed' \in BOOLEAN
    OBVIOUS
  <2>1. ASSUME NEW x, NEW m, Grow(x[1], x[2], x[3], m) PROVE crashed' \in BOOLEAN
    <3>1. ASSUME NEW P, crashed' = ~P PROVE crashed' \in BOOLEAN
      BY <3>1
    <3> QED BY <2>1, <3>1 DEF Grow
  <2> QED BY <2>1 DEF Next, Malloc, Free, Shrink, Move, vars
<1>3. ListInv /\ Flag => TypeOK
  <2> SUFFICES ASSUME ListInv, Flag PROVE TypeOK
    OBVIOUS
  <2>1. ASSUME NEW p \in Place
        PROVE  /\ heap.len[p] \in Classes \cup {0}
               /\ DOMAIN heap.reg[p] \subseteq 0 .. heap.len[p]
               /\ \A o \in DOMAIN heap.reg[p] : RegionOK(heap.reg[p][o], heap.len[p])
    <3> DEFINE f == heap.reg[p]
               len == heap.len[p]
    <3>0. BlockOK(heap, p)
      BY DEF ListInv, HeapInv, HeapOK
    <3>1. CASE len = 0
      <4>1. f = NoRegions
        BY <3>0, <3>1, ClassesPositive DEF BlockOK
      <4>2. DOMAIN f = {}
        BY <4>1 DEF NoRegions
      <4> QED BY <3>1, <4>2
    <3>2. CASE len # 0
      <4>1. len \in Classes /\ len \in Nat /\ Well(f) /\ Tiles(f, len)
        BY <3>0, <3>2, ClassesPositive DEF BlockOK
      <4> HIDE DEF f, len
      <4>2. RegionHdr \in Nat
        BY SizesAssumption
      <4>3. ASSUME NEW o \in DOMAIN f
            PROVE  o \in 0 .. len /\ f[o].size \in 1 .. len /\ f[o].free \in BOOLEAN
        <5>1. o \in Nat /\ f[o].size \in Nat /\ f[o].free \in BOOLEAN
          BY <4>1 DEF Well, Region
        <5>2. f[o].size > 0 /\ o + RegionHdr + f[o].size <= len
          BY <4>1 DEF Tiles, End
        <5> QED BY <5>1, <5>2, <4>1, <4>2
      <4>4. ASSUME NEW o \in DOMAIN f PROVE f[o].next \in 0 .. len /\ f[o].prev \in 0 .. len
        <5>1. /\ f[o].next # 0 => f[o].next \in DOMAIN f
              /\ f[o].prev # 0 => f[o].prev \in DOMAIN f
          BY <4>1 DEF Tiles, Null
        <5> QED BY <5>1, <4>1, <4>3
      <4>5. /\ len \in Classes \cup {0}
            /\ DOMAIN f \subseteq 0 .. len
            /\ \A o \in DOMAIN f : RegionOK(f[o], len)
        BY <4>1, <4>3, <4>4 DEF RegionOK
      <4> QED BY <4>5 DEF f, len
    <3> QED BY <3>1, <3>2
  <2>2. heap.mapped \in Nat
    BY MappedFinite DEF ListInv, Accounted
  <2>3. \A c \in Classes : heap.list[c] \in Seq(Place)
    BY DEF ListInv, Accounted, Linked
  <2>4. held \subseteq Place \X Nat \X Nat
    BY DEF ListInv, HeapInv, HoldsOK
  <2> QED BY <2>1, <2>2, <2>3, <2>4 DEF TypeOK
<1> QED BY <1>1, <1>2, <1>3, ListInvariant, PTL DEF Spec
=============================================================================
