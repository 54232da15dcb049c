-------------------------- MODULE FileSystemProofs --------------------------
(* Proofs about FileSystem, for any number of inodes, blocks and names, any *)
(* length of a block, and paths of any length.                              *)
EXTENDS FileSystem, TLAPS, FiniteSetTheorems, SequenceTheorems

LEMMA Disk ==
  /\ NInodes \in Nat \ {0} /\ NBlocks \in Nat /\ BlockLen \in Nat \ {0}
  /\ MaxBlocks \in Nat \ {0} /\ MaxLevel \in Nat /\ MaxSize \in Nat
  /\ Root \in Ino /\ Ino \subseteq Nat /\ Block \subseteq Nat
  /\ IsFiniteSet(Ino) /\ IsFiniteSet(Block)
<1>1. /\ NInodes \in Nat \ {0} /\ NBlocks \in Nat /\ BlockLen \in Nat \ {0}
      /\ MaxBlocks \in Nat \ {0} /\ MaxLevel \in Nat
  BY DiskAssumption
<1>2. MaxSize \in Nat
  BY <1>1 DEF MaxSize
<1>3. Root \in Ino /\ Ino \subseteq Nat /\ Block \subseteq Nat
  BY <1>1 DEF Ino, Block, Root
<1>4. IsFiniteSet(Ino) /\ IsFiniteSet(Block)
  BY <1>1, FS_Interval DEF Ino, Block
<1> QED BY <1>1, <1>2, <1>3, <1>4

-----------------------------------------------------------------------------
(* Bits that are free.                                                      *)

Below(S, x) == {y \in S : y < x}

LEMMA BelowLemma ==
  ASSUME NEW S \in SUBSET Nat, IsFiniteSet(S)
  PROVE  /\ \A x \in S : Cardinality(Below(S, x)) \in 0 .. (Cardinality(S) - 1)
         /\ \A x, y \in S : x < y => Cardinality(Below(S, x)) < Cardinality(Below(S, y))
         /\ \A k \in 0 .. (Cardinality(S) - 1) : \E x \in S : Cardinality(Below(S, x)) = k
         /\ Cardinality(S) \in Nat
<1>0. /\ Cardinality(S) \in Nat
      /\ \A x : IsFiniteSet(Below(S, x)) /\ Cardinality(Below(S, x)) \in Nat
  <2>1. ASSUME NEW x PROVE IsFiniteSet(Below(S, x)) /\ Cardinality(Below(S, x)) \in Nat
    <3>1. Below(S, x) \in SUBSET S
      BY DEF Below
    <3> QED BY <3>1, FS_Subset, FS_CardinalityType
  <2> QED BY <2>1, FS_CardinalityType
<1>1. \A x : /\ IsFiniteSet(Below(S, x) \cup {x})
             /\ Cardinality(Below(S, x) \cup {x}) =
                  IF x \in Below(S, x) THEN Cardinality(Below(S, x)) ELSE Cardinality(Below(S, x)) + 1
  BY <1>0, FS_AddElement
<1>2. ASSUME NEW x \in S PROVE Cardinality(Below(S, x) \cup {x}) = Cardinality(Below(S, x)) + 1
  <2>1. x \notin Below(S, x)
    BY DEF Below
  <2> QED BY <2>1, <1>1
<1>3. ASSUME NEW x \in S PROVE Cardinality(Below(S, x)) \in 0 .. (Cardinality(S) - 1)
  <2>1. Below(S, x) \cup {x} \in SUBSET S
    BY DEF Below
  <2>2. Cardinality(Below(S, x) \cup {x}) <= Cardinality(S)
    BY <2>1, FS_Subset
  <2> QED BY <2>2, <1>0, <1>2
<1>4. ASSUME NEW x \in S, NEW y \in S, x < y
      PROVE  Cardinality(Below(S, x)) < Cardinality(Below(S, y))
  <2>1. Below(S, x) \cup {x} \in SUBSET Below(S, y)
    <3>1. \A z \in S : z \in Nat
      OBVIOUS
    <3>2. \A z \in S : z < x => z < y
      BY <3>1, <1>4
    <3> QED BY <3>2, <1>4 DEF Below
  <2>2. Cardinality(Below(S, x) \cup {x}) <= Cardinality(Below(S, y))
    BY <2>1, <1>0, FS_Subset
  <2> QED BY <2>2, <1>0, <1>2
<1> DEFINE U == 0 .. (Cardinality(S) - 1)
           F == [x \in S |-> Cardinality(Below(S, x))]
<1>5. IsFiniteSet(U) /\ Cardinality(U) = Cardinality(S)
  <2>1. 0 \in Int /\ Cardinality(S) - 1 \in Int
    BY <1>0
  <2>2. /\ IsFiniteSet(U)
        /\ Cardinality(U) = IF 0 > Cardinality(S) - 1 THEN 0 ELSE (Cardinality(S) - 1) - 0 + 1
    BY <2>1, FS_Interval
  <2> HIDE DEF U
  <2> QED BY <2>2, <1>0
<1>6. F \in Injection(S, U)
  <2>1. F \in [S -> U]
    BY <1>3
  <2>2. ASSUME NEW x \in S, NEW y \in S, F[x] = F[y] PROVE x = y
    <3>1. x < y \/ y < x \/ x = y
      OBVIOUS
    <3> QED BY <3>1, <2>2, <1>0, <1>4
  <2> QED BY <2>1, <2>2 DEF Injection, IsInjective
<1>7. F \in Surjection(S, U)
  <2> HIDE DEF F, U
  <2> QED BY <1>5, <1>6, FS_Injection
<1>8. \A k \in U : \E x \in S : F[x] = k
  BY <1>7 DEF Surjection
<1> QED BY <1>0, <1>3, <1>4, <1>8

LEMMA LeastLemma ==
  ASSUME NEW S \in SUBSET Nat, IsFiniteSet(S), S # {}
  PROVE  Least(S) \in S /\ \A y \in S : Least(S) <= y
<1>1. Cardinality(S) \in Nat /\ Cardinality(S) # 0
  BY FS_CardinalityType, FS_EmptySet
<1>2. PICK x \in S : Cardinality(Below(S, x)) = 0
  BY <1>1, BelowLemma
<1>3. Below(S, x) = {}
  <2>1. IsFiniteSet(Below(S, x))
    <3>1. Below(S, x) \in SUBSET S
      BY DEF Below
    <3> QED BY <3>1, FS_Subset
  <2> QED BY <2>1, <1>2, FS_EmptySet
<1>4. \A y \in S : x <= y
  BY <1>3 DEF Below
<1> QED BY <1>4 DEF Least

LEMMA FreeBitsLemma ==
  ASSUME NEW bits, NEW all \in SUBSET Nat, IsFiniteSet(all), NEW n \in Nat,
         NEW got, got = FreeBits(bits, all, n)
  PROVE  /\ got \in Seq(all \ bits)
         /\ Len(got) = Smaller(n, Cardinality(all \ bits))
         /\ \A i, j \in DOMAIN got : got[i] = got[j] => i = j
         /\ Cardinality(all \ bits) \in Nat
<1> DEFINE free == all \ bits
           m == Smaller(n, Cardinality(free))
<1>1. free \in SUBSET Nat /\ IsFiniteSet(free)
  BY FS_Subset
<1>2. /\ Cardinality(free) \in Nat
      /\ \A k \in 0 .. (Cardinality(free) - 1) : \E x \in free : Cardinality(Below(free, x)) = k
  BY <1>1, BelowLemma
<1>3. got = [i \in 1 .. m |-> CHOOSE x \in free : Cardinality(Below(free, x)) = i - 1]
  BY DEF FreeBits, Below
<1>4. m \in Nat /\ m <= Cardinality(free)
  BY <1>2 DEF Smaller
<1> HIDE DEF free, m
<1>5. ASSUME NEW i \in 1 .. m PROVE got[i] \in free /\ Cardinality(Below(free, got[i])) = i - 1
  <2>1. i - 1 \in 0 .. (Cardinality(free) - 1)
    BY <1>2, <1>4
  <2>2. \E x \in free : Cardinality(Below(free, x)) = i - 1
    BY <2>1, <1>2
  <2> QED BY <2>2, <1>3
<1>6. got \in Seq(free) /\ Len(got) = m /\ DOMAIN got = 1 .. m
  BY <1>3, <1>4, <1>5
<1>7. \A i, j \in DOMAIN got : got[i] = got[j] => i = j
  BY <1>4, <1>5, <1>6
<1> QED BY <1>2, <1>6, <1>7 DEF free, m

-----------------------------------------------------------------------------
(* Where things are.                                                        *)

Value == Byte \cup (Name \X Ino)
Inode == [dir : BOOLEAN, size : 0..MaxSize, blocks : Seq(Block)]

LEMMA TypeFields ==
  ASSUME NEW f
  PROVE  f \in DiskType <=> /\ f = [inodes |-> f.inodes, ibits |-> f.ibits,
                                    dbits |-> f.dbits, data |-> f.data]
                            /\ f.inodes \in [Ino -> Inode]
                            /\ f.ibits \in SUBSET Ino /\ f.dbits \in SUBSET Block
                            /\ f.data \in [Block -> [0..(BlockLen - 1) -> Value]]
  BY DEF DiskType, Inode, Value

\* The positions of an inode that its blocks have.
Room(f, i) == 0 .. (Len(f.inodes[i].blocks) * BlockLen - 1)

\* The data blocks in use are those of the inodes in use, one place each.
Owned(f) ==
  /\ \A i \in f.ibits : \A n \in DOMAIN f.inodes[i].blocks : f.inodes[i].blocks[n] \in f.dbits
  /\ \A i, j \in f.ibits :
       \A n \in DOMAIN f.inodes[i].blocks, m \in DOMAIN f.inodes[j].blocks :
         f.inodes[i].blocks[n] = f.inodes[j].blocks[m] => i = j /\ n = m
  /\ \A b \in f.dbits : \E i \in f.ibits : \E n \in DOMAIN f.inodes[i].blocks :
       f.inodes[i].blocks[n] = b

LEMMA InodeType ==
  ASSUME NEW f \in DiskType, NEW i \in Ino
  PROVE  /\ f.inodes[i].dir \in BOOLEAN /\ f.inodes[i].size \in 0..MaxSize
         /\ f.inodes[i].size \in Nat
         /\ f.inodes[i].blocks \in Seq(Block)
         /\ Len(f.inodes[i].blocks) \in Nat
         /\ DOMAIN f.inodes[i].blocks = 1 .. Len(f.inodes[i].blocks)
         /\ f.inodes[i] = [dir |-> f.inodes[i].dir, size |-> f.inodes[i].size,
                           blocks |-> f.inodes[i].blocks]
<1>1. f.inodes[i] \in Inode
  BY TypeFields
<1>2. MaxSize \in Nat
  BY Disk
<1> QED BY <1>1, <1>2, LenProperties DEF Inode

LEMMA DivLemma ==
  ASSUME NEW n \in Nat, NEW k \in Nat
  PROVE  /\ n = (n \div BlockLen) * BlockLen + (n % BlockLen)
         /\ n % BlockLen \in 0 .. (BlockLen - 1) /\ n \div BlockLen \in Nat
         /\ n < k * BlockLen <=> n \div BlockLen < k
<1> DEFINE b == BlockLen
<1>1. b \in Nat \ {0}
  BY Disk
<1> HIDE DEF b
<1>2. n = (n \div b) * b + (n % b) /\ n % b \in 0 .. (b - 1) /\ n \div b \in Nat
  BY <1>1
<1>3. n < k * b => n \div b < k
  BY <1>1
<1>4. n \div b < k => n < k * b
  BY <1>1
<1> QED BY <1>2, <1>3, <1>4 DEF b

LEMMA SpotLemma ==
  ASSUME NEW f \in DiskType, NEW i \in Ino, NEW n \in Room(f, i)
  PROVE  /\ n \in Nat /\ n \div BlockLen + 1 \in DOMAIN f.inodes[i].blocks
         /\ BlockAt(f, i, n) \in Block
         /\ n % BlockLen \in 0 .. (BlockLen - 1)
         /\ CellAt(f, i, n) \in Value
<1> DEFINE s == f.inodes[i].blocks
<1>1. s \in Seq(Block) /\ Len(s) \in Nat /\ DOMAIN s = 1 .. Len(s)
  BY InodeType
<1>2. n \in Nat /\ n < Len(s) * BlockLen
  BY <1>1, Disk DEF Room
<1> HIDE DEF s
<1>3. n \div BlockLen \in Nat /\ n \div BlockLen < Len(s) /\ n % BlockLen \in 0 .. (BlockLen - 1)
  BY <1>1, <1>2, DivLemma
<1>4. n \div BlockLen + 1 \in DOMAIN s
  BY <1>1, <1>3
<1>5. BlockAt(f, i, n) \in Block
  <2>1. n \div BlockLen + 1 \in 1 .. Len(s)
    BY <1>1, <1>4
  <2>2. s[n \div BlockLen + 1] \in Block
    BY <2>1, <1>1, ElementOfSeq
  <2> QED BY <2>2 DEF BlockAt, s
<1>6. CellAt(f, i, n) \in Value
  <2>1. f.data \in [Block -> [0..(BlockLen - 1) -> Value]]
    BY TypeFields
  <2> QED BY <1>3, <1>5, <2>1 DEF CellAt
<1> QED BY <1>2, <1>3, <1>4, <1>5, <1>6 DEF s

\* No two positions of inodes in use are the same cell.
LEMMA SpotsApart ==
  ASSUME NEW f \in DiskType, Owned(f), NEW i \in f.ibits, NEW j \in f.ibits,
         NEW n \in Room(f, i), NEW m \in Room(f, j),
         BlockAt(f, i, n) = BlockAt(f, j, m), n % BlockLen = m % BlockLen
  PROVE  i = j /\ n = m
<1>1. i \in Ino /\ j \in Ino
  BY TypeFields
<1>2. /\ n \in Nat /\ n \div BlockLen + 1 \in DOMAIN f.inodes[i].blocks
      /\ m \in Nat /\ m \div BlockLen + 1 \in DOMAIN f.inodes[j].blocks
  BY <1>1, SpotLemma
<1>3. i = j /\ n \div BlockLen + 1 = m \div BlockLen + 1
  BY <1>2 DEF Owned, BlockAt
<1>4. /\ n = (n \div BlockLen) * BlockLen + (n % BlockLen) /\ n \div BlockLen \in Nat
      /\ m = (m \div BlockLen) * BlockLen + (m % BlockLen) /\ m \div BlockLen \in Nat
  BY <1>2, DivLemma
<1>5. n \div BlockLen = m \div BlockLen
  BY <1>3, <1>4
<1> QED BY <1>3, <1>4, <1>5

\* Store changes the cells it is given and no others.
StoredIn(f, g, i, first, seq) ==
  /\ g \in DiskType
  /\ g.inodes = f.inodes /\ g.ibits = f.ibits /\ g.dbits = f.dbits
  /\ \A n \in Room(f, i) :
       CellAt(g, i, n) = IF n \in first .. (first + Len(seq) - 1)
                         THEN seq[n - first + 1] ELSE CellAt(f, i, n)
  /\ \A j \in f.ibits \ {i} : \A n \in Room(f, j) : CellAt(g, j, n) = CellAt(f, j, n)

LEMMA StoreLemma ==
  ASSUME NEW f \in DiskType, Owned(f), NEW i \in f.ibits, NEW first \in Nat,
         NEW seq \in Seq(Value), first + Len(seq) <= Len(f.inodes[i].blocks) * BlockLen,
         NEW g, g = Store(f, i, first, seq)
  PROVE  StoredIn(f, g, i, first, seq)
<1> DEFINE last == first + Len(seq) - 1
           in(b, c) == {k \in first .. last : BlockAt(f, i, k) = b /\ k % BlockLen = c}
           d == [b \in Block |-> [c \in 0..(BlockLen - 1) |->
                   IF in(b, c) = {} THEN f.data[b][c]
                   ELSE seq[(CHOOSE k \in in(b, c) : TRUE) - first + 1]]]
<1>1. g = [f EXCEPT !.data = d]
  BY DEF Store
<1>2. /\ f = [inodes |-> f.inodes, ibits |-> f.ibits, dbits |-> f.dbits, data |-> f.data]
      /\ f.data \in [Block -> [0..(BlockLen - 1) -> Value]]
      /\ f.ibits \in SUBSET Ino /\ i \in Ino
  BY TypeFields
<1>3. /\ Len(seq) \in Nat /\ DOMAIN seq = 1 .. Len(seq)
      /\ \A k \in 1 .. Len(seq) : seq[k] \in Value
  BY LenProperties, ElementOfSeq
<1>4. /\ g = [inodes |-> f.inodes, ibits |-> f.ibits, dbits |-> f.dbits, data |-> d]
      /\ g.inodes = f.inodes /\ g.ibits = f.ibits /\ g.dbits = f.dbits /\ g.data = d
  <2> HIDE DEF d
  <2> QED BY <1>1, <1>2
<1>5. ASSUME NEW b \in Block, NEW c \in 0..(BlockLen - 1), in(b, c) # {}
      PROVE  seq[(CHOOSE k \in in(b, c) : TRUE) - first + 1] \in Value
  <2>1. PICK k : k = (CHOOSE l \in in(b, c) : TRUE)
    OBVIOUS
  <2>2. k \in first .. last
    BY <2>1, <1>5
  <2>3. k - first + 1 \in 1 .. Len(seq)
    BY <2>2, <1>3
  <2> QED BY <2>1, <2>3, <1>3
<1>6. d \in [Block -> [0..(BlockLen - 1) -> Value]]
  <2>1. \A b \in Block : \A c \in 0..(BlockLen - 1) : f.data[b][c] \in Value
    BY <1>2
  <2> HIDE DEF in
  <2> QED BY <2>1, <1>5
<1>7. g \in DiskType
  <2> HIDE DEF d
  <2> QED BY <1>4, <1>6, TypeFields
<1>8. first .. last \subseteq Room(f, i)
  <2>1. Len(f.inodes[i].blocks) \in Nat
    BY <1>2, InodeType
  <2>2. Len(f.inodes[i].blocks) * BlockLen \in Nat
    BY <2>1, Disk
  <2> QED BY <2>2, <1>3 DEF Room
<1>9. ASSUME NEW j \in f.ibits, NEW n \in Room(f, j)
      PROVE  CellAt(g, j, n) = IF j = i /\ n \in first .. last
                               THEN seq[n - first + 1] ELSE CellAt(f, j, n)
  <2> DEFINE b == BlockAt(f, j, n)
             c == n % BlockLen
  <2>1. b \in Block /\ c \in 0..(BlockLen - 1)
    BY <1>2, SpotLemma
  <2>2. BlockAt(g, j, n) = b
    BY <1>4 DEF BlockAt
  <2>3. \A k \in in(b, c) : j = i /\ k = n
    BY <1>8, SpotsApart
  <2>4. CellAt(g, j, n) = IF in(b, c) = {} THEN f.data[b][c]
                          ELSE seq[(CHOOSE k \in in(b, c) : TRUE) - first + 1]
    <3> HIDE DEF in, b, c
    <3>1. CellAt(g, j, n) = d[b][c]
      BY <1>4, <2>2 DEF CellAt, c
    <3> QED BY <2>1, <3>1
  <2>5. CASE j = i /\ n \in first .. last
    <3>1. n \in in(b, c)
      BY <2>5
    <3>2. (CHOOSE k \in in(b, c) : TRUE) = n
      <4> HIDE DEF in, b, c
      <4> QED BY <2>3, <3>1
    <3> HIDE DEF in, b, c
    <3> QED BY <2>4, <2>5, <3>1, <3>2
  <2>6. CASE ~(j = i /\ n \in first .. last)
    <3>1. in(b, c) = {}
      BY <2>3, <2>6
    <3>2. CellAt(f, j, n) = f.data[b][c]
      BY DEF CellAt
    <3> HIDE DEF in, b, c
    <3> QED BY <2>4, <2>6, <3>1, <3>2
  <2> QED BY <2>5, <2>6
<1> QED BY <1>4, <1>7, <1>9 DEF StoredIn

-----------------------------------------------------------------------------
(* Inodes that are taken, grow, shrink and are given back.                  *)

\* A new inode without blocks.
Taken(f, g, i, dir) ==
  /\ g = [inodes |-> g.inodes, ibits |-> f.ibits \cup {i}, dbits |-> f.dbits, data |-> f.data]
  /\ g.inodes = [f.inodes EXCEPT ![i] = [dir |-> dir, size |-> 0, blocks |-> <<>>]]

\* Inode i gets the blocks s and the size n, and bits are those in use then.
Resized(f, g, i, s, n, bits) ==
  /\ g = [inodes |-> g.inodes, ibits |-> f.ibits, dbits |-> bits, data |-> f.data]
  /\ g.inodes = [f.inodes EXCEPT ![i] = [dir |-> f.inodes[i].dir, size |-> n, blocks |-> s]]

LEMMA TakenLemma ==
  ASSUME NEW f \in DiskType, Owned(f), NEW i \in Ino \ f.ibits, NEW dir \in BOOLEAN,
         NEW g, Taken(f, g, i, dir)
  PROVE  /\ g \in DiskType /\ Owned(g)
         /\ g.ibits = f.ibits \cup {i} /\ g.dbits = f.dbits
         /\ g.inodes[i].dir = dir /\ g.inodes[i].size = 0
         /\ g.inodes[i].blocks = <<>> /\ Len(g.inodes[i].blocks) = 0
         /\ \A j \in f.ibits : /\ g.inodes[j] = f.inodes[j]
                               /\ \A n : CellAt(g, j, n) = CellAt(f, j, n)
<1> DEFINE new == [dir |-> dir, size |-> 0, blocks |-> <<>>]
<1>1. /\ f.inodes \in [Ino -> Inode] /\ f.ibits \in SUBSET Ino /\ f.dbits \in SUBSET Block
      /\ f.data \in [Block -> [0..(BlockLen - 1) -> Value]]
  BY TypeFields
<1>2. new \in Inode
  BY Disk DEF Inode
<1>3. /\ g = [inodes |-> g.inodes, ibits |-> f.ibits \cup {i}, dbits |-> f.dbits, data |-> f.data]
      /\ g.inodes = [f.inodes EXCEPT ![i] = new]
  BY DEF Taken
<1>4. /\ g.ibits = f.ibits \cup {i} /\ g.dbits = f.dbits /\ g.data = f.data
  BY <1>3
<1>5. new.dir = dir /\ new.size = 0 /\ new.blocks = <<>>
  OBVIOUS
<1> HIDE DEF new
<1>6. g.inodes \in [Ino -> Inode] /\ g.inodes[i] = new /\ \A j \in Ino \ {i} : g.inodes[j] = f.inodes[j]
  BY <1>1, <1>2, <1>3
<1>7. g = [inodes |-> g.inodes, ibits |-> g.ibits, dbits |-> g.dbits, data |-> g.data]
  BY <1>3, <1>4
<1>8. g \in DiskType
  BY <1>1, <1>4, <1>6, <1>7, TypeFields
<1>9. \A j \in f.ibits : g.inodes[j] = f.inodes[j]
  BY <1>1, <1>6
<1>10. DOMAIN g.inodes[i].blocks = {}
  BY <1>5, <1>6
<1>11. Owned(g)
  BY <1>4, <1>9, <1>10 DEF Owned
<1>12. \A j \in f.ibits : \A n : CellAt(g, j, n) = CellAt(f, j, n)
  BY <1>4, <1>9 DEF CellAt, BlockAt
<1> QED BY <1>4, <1>5, <1>6, <1>8, <1>9, <1>11, <1>12

\* What holds of a disk in which inode i got other blocks.
ResizedBy(f, g, i, s, n, bits) ==
  /\ g \in DiskType /\ g.ibits = f.ibits /\ g.dbits = bits /\ g.data = f.data
  /\ g.inodes[i].dir = f.inodes[i].dir /\ g.inodes[i].size = n
  /\ g.inodes[i].blocks = s
  /\ \A j \in f.ibits \ {i} : g.inodes[j] = f.inodes[j]
  /\ \A j \in f.ibits \ {i} : \A m : CellAt(g, j, m) = CellAt(f, j, m)

LEMMA ResizedFields ==
  ASSUME NEW f \in DiskType, NEW i \in f.ibits, NEW s \in Seq(Block), NEW n \in 0..MaxSize,
         NEW bits \in SUBSET Block, NEW g, Resized(f, g, i, s, n, bits)
  PROVE  ResizedBy(f, g, i, s, n, bits)
<1> DEFINE new == [dir |-> f.inodes[i].dir, size |-> n, blocks |-> s]
<1>1. /\ f.inodes \in [Ino -> Inode] /\ f.ibits \in SUBSET Ino /\ f.dbits \in SUBSET Block
      /\ f.data \in [Block -> [0..(BlockLen - 1) -> Value]] /\ i \in Ino
  BY TypeFields
<1>2. new \in Inode
  <2>1. f.inodes[i].dir \in BOOLEAN
    BY <1>1, InodeType
  <2> QED BY <2>1 DEF Inode
<1>3. /\ g = [inodes |-> g.inodes, ibits |-> f.ibits, dbits |-> bits, data |-> f.data]
      /\ g.inodes = [f.inodes EXCEPT ![i] = new]
  BY DEF Resized
<1>4. g.ibits = f.ibits /\ g.dbits = bits /\ g.data = f.data
  BY <1>3
<1>5. new.dir = f.inodes[i].dir /\ new.size = n /\ new.blocks = s
  OBVIOUS
<1> HIDE DEF new
<1>6. g.inodes \in [Ino -> Inode] /\ g.inodes[i] = new /\ \A j \in Ino \ {i} : g.inodes[j] = f.inodes[j]
  BY <1>1, <1>2, <1>3
<1>7. g = [inodes |-> g.inodes, ibits |-> g.ibits, dbits |-> g.dbits, data |-> g.data]
  BY <1>3, <1>4
<1>8. g \in DiskType
  BY <1>1, <1>4, <1>6, <1>7, TypeFields
<1>9. \A j \in f.ibits \ {i} : g.inodes[j] = f.inodes[j]
  BY <1>1, <1>6
<1>10. \A j \in f.ibits \ {i} : \A m : CellAt(g, j, m) = CellAt(f, j, m)
  BY <1>4, <1>9 DEF CellAt, BlockAt
<1> QED BY <1>4, <1>5, <1>6, <1>8, <1>9, <1>10 DEF ResizedBy

\* Blocks that were free are owned by the inode that gets them.
Given(f, g, i, k) ==
  /\ g \in DiskType /\ Owned(g)
  /\ Len(g.inodes[i].blocks) = Len(f.inodes[i].blocks) + k
  /\ Room(f, i) \subseteq Room(g, i)
  /\ \A m \in Room(f, i) : CellAt(g, i, m) = CellAt(f, i, m)

LEMMA GivenLemma ==
  ASSUME NEW f \in DiskType, Owned(f), NEW i \in f.ibits, NEW got \in Seq(Block \ f.dbits),
         \A a, b \in DOMAIN got : got[a] = got[b] => a = b, NEW n \in 0..MaxSize,
         NEW g, Resized(f, g, i, f.inodes[i].blocks \o got, n, f.dbits \cup ToSet(got))
  PROVE  Given(f, g, i, Len(got))
<1> DEFINE s == f.inodes[i].blocks
           t == s \o got
           bits == f.dbits \cup ToSet(got)
<1>0. f.ibits \subseteq Ino /\ i \in Ino /\ f.dbits \in SUBSET Block
  BY TypeFields
<1>1. s \in Seq(Block) /\ Len(s) \in Nat /\ DOMAIN s = 1 .. Len(s)
  BY <1>0, InodeType
<1>2. /\ Len(got) \in Nat /\ DOMAIN got = 1 .. Len(got) /\ got \in Seq(Block)
      /\ \A a \in 1 .. Len(got) : got[a] \in Block /\ got[a] \notin f.dbits
  BY LenProperties, ElementOfSeq, SeqMonotonic
<1>3. Resized(f, g, i, t, n, bits)
  OBVIOUS
<1> HIDE DEF s, t
<1>4. /\ t \in Seq(Block) /\ Len(t) = Len(s) + Len(got)
      /\ \A a \in 1 .. Len(s) + Len(got) : t[a] = IF a <= Len(s) THEN s[a] ELSE got[a - Len(s)]
  BY <1>1, <1>2, ConcatProperties DEF t
<1>5. DOMAIN t = 1 .. Len(s) + Len(got)
  BY <1>4, LenProperties
<1>6. ToSet(got) = {got[a] : a \in 1 .. Len(got)}
  BY <1>2 DEF ToSet
<1>7. bits \in SUBSET Block
  BY <1>0, <1>2, <1>6
<1>8. /\ g \in DiskType /\ g.ibits = f.ibits /\ g.dbits = bits /\ g.data = f.data
      /\ g.inodes[i].blocks = t
      /\ \A j \in f.ibits \ {i} : g.inodes[j] = f.inodes[j]
  <2> HIDE DEF bits
  <2>1. ResizedBy(f, g, i, t, n, bits)
    BY <1>3, <1>4, <1>7, ResizedFields
  <2> QED BY <2>1 DEF ResizedBy
\* Where the blocks of a longer list come from.
<1>9. /\ \A a \in DOMAIN s : a \in DOMAIN t /\ t[a] = s[a]
      /\ \A a \in DOMAIN t : \/ a \in DOMAIN s /\ t[a] = s[a]
                             \/ a - Len(s) \in DOMAIN got /\ t[a] = got[a - Len(s)]
      /\ \A a \in DOMAIN got : a + Len(s) \in DOMAIN t /\ t[a + Len(s)] = got[a]
  <2>1. \A a \in DOMAIN s : a \in DOMAIN t /\ t[a] = s[a]
    BY <1>1, <1>2, <1>4, <1>5
  <2>2. ASSUME NEW a \in DOMAIN t
        PROVE  \/ a \in DOMAIN s /\ t[a] = s[a]
               \/ a - Len(s) \in DOMAIN got /\ t[a] = got[a - Len(s)]
    BY <1>1, <1>2, <1>4, <1>5
  <2>3. ASSUME NEW a \in DOMAIN got PROVE a + Len(s) \in DOMAIN t /\ t[a + Len(s)] = got[a]
    <3>1. a + Len(s) \in 1 .. Len(s) + Len(got) /\ ~(a + Len(s) <= Len(s)) /\ (a + Len(s)) - Len(s) = a
      BY <1>1, <1>2
    <3> QED BY <3>1, <1>4, <1>5
  <2> QED BY <2>1, <2>2, <2>3
<1>10. /\ \A a \in DOMAIN s : s[a] \in f.dbits
       /\ \A a, b \in DOMAIN s : s[a] = s[b] => a = b
       /\ \A j \in f.ibits \ {i} : \A b \in DOMAIN f.inodes[j].blocks :
            /\ f.inodes[j].blocks[b] \in f.dbits
            /\ \A a \in DOMAIN s : s[a] # f.inodes[j].blocks[b]
  BY DEF Owned, s
<1>11. /\ \A a \in DOMAIN t : t[a] \in bits
       /\ \A a, b \in DOMAIN t : t[a] = t[b] => a = b
       /\ \A j \in f.ibits \ {i} : \A b \in DOMAIN f.inodes[j].blocks :
            \A a \in DOMAIN t : t[a] # f.inodes[j].blocks[b]
  <2>1. \A a \in DOMAIN t : t[a] \in bits
    BY <1>2, <1>6, <1>9, <1>10
  <2>2. ASSUME NEW a \in DOMAIN t, NEW b \in DOMAIN t, t[a] = t[b] PROVE a = b
    <3>1. a - Len(s) \in DOMAIN got /\ b - Len(s) \in DOMAIN got /\ got[a - Len(s)] = got[b - Len(s)] => a = b
      BY <1>1, <1>5
    <3> QED BY <2>2, <3>1, <1>2, <1>9, <1>10
  <2>3. ASSUME NEW j \in f.ibits \ {i}, NEW b \in DOMAIN f.inodes[j].blocks, NEW a \in DOMAIN t
        PROVE  t[a] # f.inodes[j].blocks[b]
    BY <1>2, <1>9, <1>10
  <2> QED BY <2>1, <2>2, <2>3
<1>12. Owned(g)
  <2>1. \A j \in g.ibits : \A a \in DOMAIN g.inodes[j].blocks : g.inodes[j].blocks[a] \in g.dbits
    <3>1. ASSUME NEW j \in f.ibits, NEW a \in DOMAIN g.inodes[j].blocks
          PROVE  g.inodes[j].blocks[a] \in bits
      BY <1>8, <1>10, <1>11
    <3> QED BY <3>1, <1>8
  <2>2. ASSUME NEW j \in f.ibits, NEW k \in f.ibits,
               NEW a \in DOMAIN g.inodes[j].blocks, NEW b \in DOMAIN g.inodes[k].blocks,
               g.inodes[j].blocks[a] = g.inodes[k].blocks[b]
        PROVE  j = k /\ a = b
    <3>1. CASE j = i /\ k = i
      BY <2>2, <3>1, <1>8, <1>11
    <3>2. CASE j = i /\ k # i
      BY <2>2, <3>2, <1>8, <1>11
    <3>3. CASE j # i /\ k = i
      BY <2>2, <3>3, <1>8, <1>11
    <3>4. CASE j # i /\ k # i
      BY <2>2, <3>4, <1>8 DEF Owned
    <3> QED BY <3>1, <3>2, <3>3, <3>4
  <2>3. ASSUME NEW b \in bits
        PROVE  \E j \in f.ibits : \E a \in DOMAIN g.inodes[j].blocks : g.inodes[j].blocks[a] = b
    <3>1. CASE b \in f.dbits
      <4>1. PICK j \in f.ibits : \E a \in DOMAIN f.inodes[j].blocks : f.inodes[j].blocks[a] = b
        BY <3>1 DEF Owned
      <4>2. PICK a \in DOMAIN f.inodes[j].blocks : f.inodes[j].blocks[a] = b
        BY <4>1
      <4>3. CASE j = i
        <5>1. a \in DOMAIN s /\ s[a] = b
          BY <4>2, <4>3 DEF s
        <5>2. a \in DOMAIN t /\ t[a] = b
          BY <5>1, <1>9
        <5> QED BY <5>2, <1>8
      <4>4. CASE j # i
        BY <4>2, <4>4, <1>8
      <4> QED BY <4>3, <4>4
    <3>2. CASE b \in ToSet(got)
      <4>1. PICK a \in DOMAIN got : got[a] = b
        BY <3>2, <1>2, <1>6
      <4>2. a + Len(s) \in DOMAIN t /\ t[a + Len(s)] = b
        BY <4>1, <1>9
      <4> QED BY <4>2, <1>8
    <3> QED BY <3>1, <3>2
  <2> QED BY <2>1, <2>2, <2>3, <1>8 DEF Owned
<1>13. Room(f, i) \subseteq Room(g, i)
  <2>1. Len(s) * BlockLen <= Len(t) * BlockLen /\ Len(s) * BlockLen \in Nat /\ Len(t) * BlockLen \in Nat
    BY <1>1, <1>2, <1>4, Disk
  <2> QED BY <2>1, <1>8 DEF Room, s
<1>14. ASSUME NEW m \in Room(f, i) PROVE CellAt(g, i, m) = CellAt(f, i, m)
  <2>1. m \div BlockLen + 1 \in DOMAIN s
    BY <1>0, SpotLemma DEF s
  <2>2. BlockAt(g, i, m) = BlockAt(f, i, m)
    BY <2>1, <1>8, <1>9 DEF BlockAt, s
  <2> QED BY <2>2, <1>8 DEF CellAt
<1> QED BY <1>4, <1>8, <1>12, <1>13, <1>14 DEF s, Given

\* The bits left of an inode that keeps k blocks.
Kept(f, i, k) ==
  f.dbits \ {f.inodes[i].blocks[a] : a \in (k + 1) .. Len(f.inodes[i].blocks)}

\* The blocks an inode keeps are still its own, and the others are free.
LEMMA DroppedLemma ==
  ASSUME NEW f \in DiskType, Owned(f), NEW i \in f.ibits,
         NEW k \in 0 .. Len(f.inodes[i].blocks), NEW n \in 0..MaxSize,
         NEW g, Resized(f, g, i, SubSeq(f.inodes[i].blocks, 1, k), n, Kept(f, i, k))
  PROVE  /\ g \in DiskType /\ Owned(g)
         /\ Len(g.inodes[i].blocks) = k
         /\ \A m \in Room(g, i) : m \in Room(f, i) /\ CellAt(g, i, m) = CellAt(f, i, m)
<1> DEFINE s == f.inodes[i].blocks
           t == SubSeq(s, 1, k)
           bits == f.dbits \ {s[a] : a \in (k + 1) .. Len(s)}
<1>0. f.ibits \subseteq Ino /\ i \in Ino /\ f.dbits \in SUBSET Block
  BY TypeFields
<1>1. s \in Seq(Block) /\ Len(s) \in Nat /\ DOMAIN s = 1 .. Len(s) /\ k \in Nat /\ k <= Len(s)
  <2>1. s \in Seq(Block) /\ Len(s) \in Nat /\ DOMAIN s = 1 .. Len(s)
    BY <1>0, InodeType
  <2>2. k \in 0 .. Len(s)
    OBVIOUS
  <2> HIDE DEF s
  <2> QED BY <2>1, <2>2
<1>2. Resized(f, g, i, t, n, bits)
  BY DEF Kept
<1> HIDE DEF s
<1>3. t \in Seq(Block) /\ Len(t) = k /\ \A a \in 1 .. k : t[a] = s[a]
  <2>1. \A a \in 1 .. k : s[a] \in Block
    BY <1>1, ElementOfSeq
  <2>2. /\ t \in Seq(Block) /\ Len(t) = IF 1 <= k THEN k - 1 + 1 ELSE 0
        /\ \A a \in 1 .. k - 1 + 1 : t[a] = s[1 + a - 1]
    BY <2>1, <1>1, SubSeqProperties
  <2> HIDE DEF t
  <2>3. k - 1 + 1 = k /\ \A a \in 1 .. k : 1 + a - 1 = a
    BY <1>1
  <2> QED BY <2>2, <2>3, <1>1
<1>4. DOMAIN t = 1 .. k
  BY <1>3, LenProperties
<1> HIDE DEF t
<1>5. /\ g \in DiskType /\ g.ibits = f.ibits /\ g.dbits = bits /\ g.data = f.data
      /\ g.inodes[i].blocks = t
      /\ \A j \in f.ibits \ {i} : g.inodes[j] = f.inodes[j]
  <2>1. bits \in SUBSET Block
    BY <1>0
  <2> HIDE DEF bits
  <2>2. ResizedBy(f, g, i, t, n, bits)
    BY <2>1, <1>2, <1>3, ResizedFields
  <2> QED BY <2>2 DEF ResizedBy
<1>6. /\ \A a \in DOMAIN s : s[a] \in f.dbits
      /\ \A a, b \in DOMAIN s : s[a] = s[b] => a = b
      /\ \A j \in f.ibits \ {i} : \A b \in DOMAIN f.inodes[j].blocks :
           /\ f.inodes[j].blocks[b] \in f.dbits
           /\ \A a \in DOMAIN s : s[a] # f.inodes[j].blocks[b]
  BY DEF Owned, s
<1>7. \A a \in DOMAIN t : a \in DOMAIN s /\ t[a] = s[a] /\ a \notin (k + 1) .. Len(s)
  BY <1>1, <1>3, <1>4
<1>8. \A a \in (k + 1) .. Len(s) : a \in DOMAIN s
  BY <1>1
<1>9. Owned(g)
  <2>1. ASSUME NEW j \in f.ibits, NEW a \in DOMAIN g.inodes[j].blocks
        PROVE  g.inodes[j].blocks[a] \in bits
    <3>1. CASE j = i
      BY <3>1, <1>5, <1>6, <1>7, <1>8
    <3>2. CASE j # i
      BY <3>2, <1>5, <1>6, <1>8
    <3> QED BY <3>1, <3>2
  <2>2. ASSUME NEW j \in f.ibits, NEW l \in f.ibits,
               NEW a \in DOMAIN g.inodes[j].blocks, NEW b \in DOMAIN g.inodes[l].blocks,
               g.inodes[j].blocks[a] = g.inodes[l].blocks[b]
        PROVE  j = l /\ a = b
    <3>1. CASE j = i /\ l = i
      BY <2>2, <3>1, <1>5, <1>6, <1>7
    <3>2. CASE j = i /\ l # i
      BY <2>2, <3>2, <1>5, <1>6, <1>7
    <3>3. CASE j # i /\ l = i
      BY <2>2, <3>3, <1>5, <1>6, <1>7
    <3>4. CASE j # i /\ l # i
      BY <2>2, <3>4, <1>5 DEF Owned
    <3> QED BY <3>1, <3>2, <3>3, <3>4
  <2>3. ASSUME NEW b \in bits
        PROVE  \E j \in f.ibits : \E a \in DOMAIN g.inodes[j].blocks : g.inodes[j].blocks[a] = b
    <3>1. PICK j \in f.ibits : \E a \in DOMAIN f.inodes[j].blocks : f.inodes[j].blocks[a] = b
      BY DEF Owned
    <3>2. PICK a \in DOMAIN f.inodes[j].blocks : f.inodes[j].blocks[a] = b
      BY <3>1
    <3>3. CASE j = i
      <4>1. a \in DOMAIN s /\ s[a] = b
        BY <3>2, <3>3 DEF s
      <4>2. a \notin (k + 1) .. Len(s)
        BY <4>1
      <4>3. a \in DOMAIN t /\ t[a] = b
        BY <4>1, <4>2, <1>1, <1>3, <1>4
      <4> QED BY <4>3, <1>5
    <3>4. CASE j # i
      BY <3>2, <3>4, <1>5
    <3> QED BY <3>3, <3>4
  <2>4. \A j \in g.ibits : \A a \in DOMAIN g.inodes[j].blocks : g.inodes[j].blocks[a] \in g.dbits
    BY <2>1, <1>5
  <2> QED BY <2>2, <2>3, <2>4, <1>5 DEF Owned
<1>10. ASSUME NEW m \in Room(g, i)
       PROVE  m \in Room(f, i) /\ CellAt(g, i, m) = CellAt(f, i, m)
  <2>1. k * BlockLen <= Len(s) * BlockLen /\ k * BlockLen \in Nat /\ Len(s) * BlockLen \in Nat
    BY <1>1, Disk
  <2>2. m \in Room(f, i)
    BY <2>1, <1>3, <1>5 DEF Room, s
  <2>3. m \div BlockLen + 1 \in DOMAIN t
    BY <1>0, <1>5, SpotLemma
  <2>4. BlockAt(g, i, m) = BlockAt(f, i, m)
    BY <2>3, <1>5, <1>7 DEF BlockAt, s
  <2> QED BY <2>2, <2>4, <1>5 DEF CellAt
<1> QED BY <1>3, <1>5, <1>9, <1>10

\* Only the size changes.
LEMMA SizedLemma ==
  ASSUME NEW f \in DiskType, Owned(f), NEW i \in f.ibits, NEW n \in 0..MaxSize,
         NEW g, g = [f EXCEPT !.inodes[i].size = n]
  PROVE  /\ Owned(g) /\ ResizedBy(f, g, i, f.inodes[i].blocks, n, f.dbits)
         /\ \A m : CellAt(g, i, m) = CellAt(f, i, m)
<1> DEFINE s == f.inodes[i].blocks
<1>1. /\ f = [inodes |-> f.inodes, ibits |-> f.ibits, dbits |-> f.dbits, data |-> f.data]
      /\ f.inodes \in [Ino -> Inode] /\ f.ibits \in SUBSET Ino /\ f.dbits \in SUBSET Block
      /\ i \in Ino
  BY TypeFields
<1>2. s \in Seq(Block) /\ f.inodes[i] = [dir |-> f.inodes[i].dir, size |-> f.inodes[i].size, blocks |-> s]
  BY <1>1, InodeType
<1>3. /\ g = [inodes |-> g.inodes, ibits |-> f.ibits, dbits |-> f.dbits, data |-> f.data]
      /\ g.inodes = [f.inodes EXCEPT ![i] = [f.inodes[i] EXCEPT !.size = n]]
  BY <1>1
<1>4. [f.inodes[i] EXCEPT !.size = n] = [dir |-> f.inodes[i].dir, size |-> n, blocks |-> s]
  BY <1>2
<1>5. Resized(f, g, i, s, n, f.dbits)
  BY <1>3, <1>4 DEF Resized
<1> HIDE DEF s
<1>6. ResizedBy(f, g, i, s, n, f.dbits)
  BY <1>1, <1>2, <1>5, ResizedFields
<1>7. Owned(g)
  <2>1. \A j \in f.ibits : g.inodes[j].blocks = f.inodes[j].blocks
    BY <1>6 DEF ResizedBy, s
  <2>2. g.ibits = f.ibits /\ g.dbits = f.dbits
    BY <1>6 DEF ResizedBy
  <2> QED BY <2>1, <2>2 DEF Owned
<1>8. \A m : CellAt(g, i, m) = CellAt(f, i, m)
  BY <1>6 DEF ResizedBy, CellAt, BlockAt, s
<1> QED BY <1>6, <1>7, <1>8 DEF s

\* What an inode that gets up to n blocks keeps, and how many it gets.
GrownBy(f, g, i, k) ==
  /\ g \in DiskType /\ Owned(g) /\ g.ibits = f.ibits
  /\ g.inodes[i].dir = f.inodes[i].dir /\ g.inodes[i].size = f.inodes[i].size
  /\ Len(g.inodes[i].blocks) = Len(f.inodes[i].blocks) + k
  /\ \A j \in f.ibits \ {i} : g.inodes[j] = f.inodes[j]
  /\ \A j \in f.ibits : Room(f, j) \subseteq Room(g, j)
  /\ \A j \in f.ibits : \A m \in Room(f, j) : CellAt(g, j, m) = CellAt(f, j, m)

LEMMA GrowLemma ==
  ASSUME NEW f \in DiskType, Owned(f), NEW i \in f.ibits, NEW n \in Nat,
         NEW g, g = GrowBlocks(f, i, n)
  PROVE  /\ GrownBy(f, g, i, Smaller(n, Cardinality(Block \ f.dbits)))
         /\ Cardinality(Block \ f.dbits) \in Nat
<1> DEFINE got == FreeBits(f.dbits, Block, n)
           s == f.inodes[i].blocks
           size == f.inodes[i].size
           bits == f.dbits \cup ToSet(got)
<1>1. /\ f = [inodes |-> f.inodes, ibits |-> f.ibits, dbits |-> f.dbits, data |-> f.data]
      /\ f.inodes \in [Ino -> Inode] /\ f.ibits \in SUBSET Ino /\ f.dbits \in SUBSET Block
      /\ i \in Ino
  BY TypeFields
<1>2. /\ s \in Seq(Block) /\ size \in 0..MaxSize
      /\ f.inodes[i] = [dir |-> f.inodes[i].dir, size |-> size, blocks |-> s]
  BY <1>1, InodeType
<1>3. /\ got \in Seq(Block \ f.dbits)
      /\ Len(got) = Smaller(n, Cardinality(Block \ f.dbits))
      /\ \A a, b \in DOMAIN got : got[a] = got[b] => a = b
      /\ Cardinality(Block \ f.dbits) \in Nat
  BY Disk, FreeBitsLemma
<1>4. g = [f EXCEPT !.dbits = @ \cup ToSet(got), !.inodes[i].blocks = @ \o got]
  BY DEF GrowBlocks
<1> HIDE DEF got
<1>5. /\ g = [inodes |-> g.inodes, ibits |-> f.ibits, dbits |-> bits, data |-> f.data]
      /\ g.inodes = [f.inodes EXCEPT ![i] = [f.inodes[i] EXCEPT !.blocks = s \o got]]
  BY <1>1, <1>4
<1>6. [f.inodes[i] EXCEPT !.blocks = s \o got] = [dir |-> f.inodes[i].dir, size |-> size, blocks |-> s \o got]
  <2>1. \A t : [f.inodes[i] EXCEPT !.blocks = t] = [dir |-> f.inodes[i].dir, size |-> size, blocks |-> t]
    <3> HIDE DEF s, size
    <3> QED BY <1>2
  <2> QED BY <2>1
<1>7. Resized(f, g, i, s \o got, size, bits)
  BY <1>5, <1>6 DEF Resized
<1>8. s \o got \in Seq(Block) /\ bits \in SUBSET Block
  <2>1. /\ Len(got) \in Nat /\ DOMAIN got = 1 .. Len(got) /\ got \in Seq(Block)
        /\ \A a \in 1 .. Len(got) : got[a] \in Block
    BY <1>3, LenProperties, ElementOfSeq, SeqMonotonic
  <2>2. s \o got \in Seq(Block)
    BY <2>1, <1>2, ConcatProperties
  <2> QED BY <2>1, <2>2, <1>1 DEF ToSet
<1>9. ResizedBy(f, g, i, s \o got, size, bits)
  <2> HIDE DEF s, size, bits
  <2> QED BY <1>2, <1>7, <1>8, ResizedFields
<1>10. Given(f, g, i, Len(got))
  <2> HIDE DEF size
  <2> QED BY <1>2, <1>3, <1>7, GivenLemma
<1>11. \A j \in f.ibits \ {i} : Room(g, j) = Room(f, j)
  BY <1>9 DEF ResizedBy, Room
<1> QED BY <1>3, <1>9, <1>10, <1>11 DEF GrownBy, ResizedBy, Given

-----------------------------------------------------------------------------
(* The size of an inode and its blocks.                                     *)

\* BlocksFit, for an inode of the given size with used blocks.
Fits(dir, size, used) ==
  /\ size <= used * BlockLen
  /\ used * BlockLen <= size + BlockLen
  /\ dir \/ size = 0 => used * BlockLen < size + BlockLen
  /\ used <= MaxBlocks + 1

LEMMA Times ==
  ASSUME NEW a \in Nat, NEW b \in Nat
  PROVE  /\ a * BlockLen \in Nat
         /\ a <= b => a * BlockLen <= b * BlockLen
         /\ (a + 1) * BlockLen = a * BlockLen + BlockLen
         /\ a * BlockLen < b * BlockLen => a < b
         /\ a * BlockLen <= b * BlockLen => a <= b
<1> DEFINE c == BlockLen
<1>1. c \in Nat \ {0}
  BY Disk
<1> HIDE DEF c
<1>2. a * c \in Nat /\ b * c \in Nat /\ (a + 1) * c = a * c + c
  BY <1>1
<1>3. a <= b => a * c <= b * c
  BY <1>1
<1>4. b < a => b * c < a * c
  BY <1>1
<1> QED BY <1>2, <1>3, <1>4 DEF c

\* What is true of n bytes written at an offset when k blocks were got for them.
WriteFit(size, used, offset, n, k, room) ==
  /\ k \in Nat /\ room \in Nat
  /\ offset + Smaller(n, room) <= (used + k) * BlockLen
  /\ Larger(size, offset + Smaller(n, room)) \in 0..MaxSize
  /\ Fits(FALSE, Larger(size, offset + Smaller(n, room)), used + k)

LEMMA WriteFits ==
  ASSUME NEW size \in 0..MaxSize, NEW used \in Nat, Fits(FALSE, size, used),
         NEW offset \in Nat, offset <= size, NEW n \in Nat \ {0}, offset + n <= MaxSize,
         NEW free \in Nat,
         NEW last, last = (offset + n) \div BlockLen,
         NEW k, k = Smaller(IF last + 1 > used THEN last + 1 - used ELSE 0, free),
         NEW room, room = (used + k) * BlockLen - offset
  PROVE  WriteFit(size, used, offset, n, k, room)
<1> DEFINE t == offset + n
           A == used * BlockLen
           B == last * BlockLen
           C == (used + k) * BlockLen
           new == Larger(size, offset + Smaller(n, room))
<1>0. BlockLen \in Nat \ {0} /\ MaxBlocks \in Nat /\ MaxSize \in Nat /\ t \in Nat /\ size \in Nat
  BY Disk
<1>1. last \in Nat /\ B <= t /\ t < B + BlockLen
  BY <1>0, DivLemma
<1>2. last <= MaxBlocks
  <2>1. MaxSize < (MaxBlocks + 1) * BlockLen
    BY <1>0, Times DEF MaxSize
  <2>2. t < (MaxBlocks + 1) * BlockLen
    BY <2>1, <1>0, Times
  <2> HIDE DEF t
  <2>3. MaxBlocks + 1 \in Nat
    BY <1>0
  <2>4. t \div BlockLen < MaxBlocks + 1
    BY <2>2, <2>3, <1>0, DivLemma
  <2>5. last = t \div BlockLen
    BY DEF t
  <2> QED BY <2>4, <2>5, <1>0, <1>1
<1>3. k \in Nat
  BY <1>1 DEF Smaller
<1>4. A \in Nat /\ B \in Nat /\ C \in Nat /\ A <= C
  BY <1>1, <1>3, Times
<1>5. /\ size <= A /\ A <= size + BlockLen
      /\ size = 0 => A < size + BlockLen
      /\ used <= MaxBlocks + 1
  BY DEF Fits
<1>6. room = C - offset /\ room \in Nat
  BY <1>4, <1>5
<1>7. offset + Smaller(n, room) <= C
  BY <1>4, <1>6 DEF Smaller
<1>8. new <= C /\ new >= size /\ new \in Nat /\ new >= offset + Smaller(n, room)
  BY <1>4, <1>5, <1>6, <1>7 DEF Larger, Smaller
<1>9. new \in 0..MaxSize
  BY <1>0, <1>6 DEF Larger, Smaller
<1>10. CASE used >= last + 1
  <2>1. k = 0 /\ C = A
    BY <1>1, <1>10 DEF Smaller
  <2>2. B + BlockLen <= A
    <3>1. (last + 1) * BlockLen <= A
      BY <1>1, <1>10, Times
    <3> QED BY <3>1, <1>1, Times
  <2>3. room > n
    BY <2>1, <2>2, <1>1, <1>4, <1>6, <1>0
  <2>4. new >= t
    BY <2>3, <1>6, <1>8 DEF Smaller
  <2>5. Fits(FALSE, new, used + k)
    BY <2>1, <2>4, <1>0, <1>4, <1>5, <1>8 DEF Fits
  <2> QED BY <2>5, <1>3, <1>6, <1>7, <1>9 DEF WriteFit
<1>11. CASE used < last + 1 /\ free >= last + 1 - used
  <2>1. k = last + 1 - used /\ used + k = last + 1
    BY <1>1, <1>11 DEF Smaller
  <2>2. C = B + BlockLen
    BY <2>1, <1>1, Times
  <2>3. room > n
    BY <2>2, <1>0, <1>1, <1>4, <1>6
  <2>4. new >= t
    BY <2>3, <1>6, <1>8 DEF Smaller
  <2>5. Fits(FALSE, new, used + k)
    BY <2>1, <2>2, <2>4, <1>0, <1>1, <1>2, <1>4, <1>8 DEF Fits
  <2> QED BY <2>5, <1>3, <1>6, <1>7, <1>9 DEF WriteFit
<1>12. CASE used < last + 1 /\ free < last + 1 - used
  <2>1. k = free /\ used + k <= last
    BY <1>1, <1>12 DEF Smaller
  <2>2. C <= B
    BY <2>1, <1>1, <1>3, Times
  <2>3. room <= n
    BY <2>2, <1>0, <1>1, <1>4, <1>6
  <2>4. new >= C
    BY <2>3, <1>6, <1>4, <1>8 DEF Smaller
  <2>5. Fits(FALSE, new, used + k)
    BY <2>1, <2>4, <1>0, <1>1, <1>2, <1>3, <1>4, <1>8 DEF Fits
  <2> QED BY <2>5, <1>3, <1>6, <1>7, <1>9 DEF WriteFit
<1>13. \/ used >= last + 1
       \/ used < last + 1 /\ free >= last + 1 - used
       \/ used < last + 1 /\ free < last + 1 - used
  BY <1>1
<1> HIDE DEF t, A, B, C, new
<1> QED BY <1>10, <1>11, <1>12, <1>13 DEF new

LEMMA ShrinkFits ==
  ASSUME NEW size \in Nat, NEW used \in Nat, Fits(FALSE, size, used),
         NEW length \in Nat, length < size,
         NEW keep, keep = length \div BlockLen + (IF length % BlockLen > 0 THEN 1 ELSE 0)
  PROVE  keep \in 0 .. used /\ Fits(FALSE, length, keep)
<1> DEFINE q == length \div BlockLen
           r == length % BlockLen
<1>0. BlockLen \in Nat \ {0} /\ MaxBlocks \in Nat
  BY Disk
<1>1. q \in Nat /\ r \in 0 .. (BlockLen - 1) /\ length = q * BlockLen + r
  BY DivLemma
<1>2. keep = q + (IF r > 0 THEN 1 ELSE 0)
  OBVIOUS
<1> HIDE DEF q, r
<1>3. keep \in Nat /\ keep * BlockLen = q * BlockLen + (IF r > 0 THEN BlockLen ELSE 0)
  BY <1>0, <1>1, <1>2, Times
<1>4. q * BlockLen \in Nat
  BY <1>1, Times
<1>5. length <= keep * BlockLen /\ keep * BlockLen < length + BlockLen
  BY <1>0, <1>1, <1>3, <1>4
<1>6. size <= used * BlockLen /\ used <= MaxBlocks + 1
  BY DEF Fits
<1>7. keep <= used
  <2>1. q * BlockLen < used * BlockLen
    BY <1>0, <1>1, <1>4, <1>6, Times
  <2>2. q < used
    BY <2>1, <1>1, Times
  <2> QED BY <2>2, <1>1, <1>2
<1> QED BY <1>0, <1>3, <1>5, <1>6, <1>7 DEF Fits

LEMMA InsertFits ==
  ASSUME NEW size \in Nat, NEW used \in Nat, Fits(TRUE, size, used), size < MaxSize
  PROVE  IF size = used * BlockLen THEN Fits(TRUE, size + 1, used + 1) /\ size < (used + 1) * BlockLen
         ELSE Fits(TRUE, size + 1, used) /\ size < used * BlockLen
<1>0. BlockLen \in Nat \ {0} /\ MaxBlocks \in Nat /\ used * BlockLen \in Nat
      /\ (used + 1) * BlockLen = used * BlockLen + BlockLen
  BY Disk, Times
<1>1. size <= used * BlockLen /\ used * BlockLen < size + BlockLen /\ used <= MaxBlocks + 1
  BY DEF Fits
<1>2. CASE size = used * BlockLen
  <2>1. used < MaxBlocks
    BY <1>0, <1>2, Times DEF MaxSize
  <2> QED BY <2>1, <1>0, <1>2 DEF Fits
<1>3. CASE size # used * BlockLen
  BY <1>0, <1>1, <1>3 DEF Fits
<1> QED BY <1>2, <1>3

LEMMA RemoveFits ==
  ASSUME NEW size \in Nat \ {0}, NEW used \in Nat, Fits(TRUE, size, used)
  PROVE  IF (size - 1) % BlockLen # 0 THEN Fits(TRUE, size - 1, used)
         ELSE used \in Nat \ {0} /\ Fits(TRUE, size - 1, used - 1)
<1> DEFINE m == size - 1
           q == m \div BlockLen
           r == m % BlockLen
<1>0. BlockLen \in Nat \ {0} /\ MaxBlocks \in Nat /\ m \in Nat /\ used * BlockLen \in Nat
  BY Disk, Times
<1>1. q \in Nat /\ r \in 0 .. (BlockLen - 1) /\ m = q * BlockLen + r /\ q * BlockLen \in Nat
      /\ (q + 1) * BlockLen = q * BlockLen + BlockLen
  BY <1>0, DivLemma, Times
<1>2. size <= used * BlockLen /\ used * BlockLen < size + BlockLen /\ used <= MaxBlocks + 1
      /\ size = m + 1
  BY DEF Fits
<1> HIDE DEF q, r, m
\* There are q + 1 blocks, with an entry more than q of them hold.
<1>3. used = q + 1 \/ (r # 0 /\ used * BlockLen < m + BlockLen)
  <2>1. q < used
    <3>1. q * BlockLen < used * BlockLen
      BY <1>0, <1>1, <1>2
    <3> QED BY <3>1, <1>1, Times
  <2>2. CASE r = 0
    <3>1. used * BlockLen <= (q + 1) * BlockLen
      BY <2>2, <1>0, <1>1, <1>2
    <3>2. used <= q + 1
      BY <3>1, <1>1, Times
    <3> QED BY <3>2, <2>1, <1>1
  <2>3. CASE r # 0
    <3>1. CASE used * BlockLen < m + BlockLen
      BY <2>3, <3>1
    <3>2. CASE ~(used * BlockLen < m + BlockLen)
      <4>1. used * BlockLen = (q + 1) * BlockLen + r
        BY <3>2, <1>0, <1>1, <1>2
      <4>2. q + 1 < used
        <5>1. (q + 1) * BlockLen < used * BlockLen
          BY <4>1, <2>3, <1>1, <1>0
        <5> QED BY <5>1, <1>1, Times
      <4>3. used < q + 2
        <5>1. (q + 2) * BlockLen = (q + 1) * BlockLen + BlockLen
          BY <1>1, Times
        <5>2. used * BlockLen < (q + 2) * BlockLen
          BY <5>1, <4>1, <1>0, <1>1
        <5> QED BY <5>2, <1>1, Times
      <4> QED BY <4>2, <4>3, <1>1
    <3> QED BY <3>1, <3>2
  <2> QED BY <2>2, <2>3
<1>4. CASE r # 0
  <2>1. used * BlockLen < m + BlockLen
    <3>1. used = q + 1 => used * BlockLen = q * BlockLen + BlockLen
      BY <1>1
    <3> QED BY <3>1, <1>0, <1>1, <1>3, <1>4
  <2>2. Fits(TRUE, m, used)
    BY <2>1, <1>0, <1>2 DEF Fits
  <2> QED BY <2>2, <1>4 DEF m, r
<1>5. CASE r = 0
  <2>1. used = q + 1 /\ used - 1 = q
    BY <1>1, <1>3, <1>5
  <2>2. Fits(TRUE, m, used - 1)
    BY <2>1, <1>0, <1>1, <1>2, <1>5 DEF Fits
  <2>3. used \in Nat \ {0}
    BY <2>1, <1>1
  <2> QED BY <2>2, <2>3, <1>5 DEF m, r
<1> QED BY <1>4, <1>5

-----------------------------------------------------------------------------
(* Disks that are in order.                                                 *)

Kind(f, i) == IF f.inodes[i].dir THEN Name \X Ino ELSE Byte

\* The first n cells of an inode are of its kind.
Holds(f, i, n) == \A m \in 0 .. (n - 1) : CellAt(f, i, m) \in Kind(f, i)

Whole(f, i) ==
  /\ Fits(f.inodes[i].dir, f.inodes[i].size, Len(f.inodes[i].blocks))
  /\ Holds(f, i, f.inodes[i].size)

Good(f) == f \in DiskType /\ Owned(f) /\ \A i \in f.ibits : Whole(f, i)

LEMMA SizeInRoom ==
  ASSUME NEW f \in DiskType, NEW i \in Ino,
         Fits(f.inodes[i].dir, f.inodes[i].size, Len(f.inodes[i].blocks))
  PROVE  0 .. (f.inodes[i].size - 1) \subseteq Room(f, i)
<1>1. f.inodes[i].size \in Nat /\ Len(f.inodes[i].blocks) \in Nat
  BY InodeType
<1>2. Len(f.inodes[i].blocks) * BlockLen \in Nat
  BY <1>1, Times
<1> QED BY <1>1, <1>2 DEF Fits, Room

\* From f to g inode i changes, and no other.
OnlyThat(f, g, i) ==
  /\ g \in DiskType /\ Owned(g) /\ g.ibits = f.ibits
  /\ g.inodes[i].dir = f.inodes[i].dir
  /\ \A j \in f.ibits \ {i} :
       /\ g.inodes[j] = f.inodes[j]
       /\ \A m \in 0 .. (f.inodes[j].size - 1) : CellAt(g, j, m) = CellAt(f, j, m)

LEMMA GoodLemma ==
  ASSUME NEW f, NEW g, NEW i, Good(f), OnlyThat(f, g, i), Whole(g, i)
  PROVE  Good(g)
<1>1. ASSUME NEW j \in f.ibits \ {i} PROVE Whole(g, j)
  <2>1. Whole(f, j) /\ g.inodes[j] = f.inodes[j]
        /\ \A m \in 0 .. (f.inodes[j].size - 1) : CellAt(g, j, m) = CellAt(f, j, m)
    BY DEF Good, OnlyThat
  <2> QED BY <2>1 DEF Whole, Holds, Kind
<1> QED BY <1>1 DEF Good, OnlyThat

\* As many bytes of buf as there is room for, from offset on.
WroteIn(f, g, i, buf, offset) ==
  \E k \in 0 .. Len(buf) :
    /\ g.inodes[i].size = Larger(f.inodes[i].size, offset + k)
    /\ \A m \in 0 .. (g.inodes[i].size - 1) :
         CellAt(g, i, m) = IF m \in offset .. (offset + k - 1) THEN buf[m - offset + 1]
                           ELSE CellAt(f, i, m)

\* write_file() of n bytes or fewer at the end of a file or in it.
LEMMA WriteLemma ==
  ASSUME NEW f, Good(f), NEW i \in f.ibits, ~f.inodes[i].dir,
         NEW buf \in Seq(Byte), buf # <<>>, NEW offset \in Nat,
         offset <= f.inodes[i].size, offset + Len(buf) <= MaxSize,
         NEW g, g = WriteFile(f, i, buf, offset)
  PROVE  Good(g) /\ OnlyThat(f, g, i) /\ WroteIn(f, g, i, buf, offset)
<1> DEFINE n == Len(buf)
           size == f.inodes[i].size
           used == Len(f.inodes[i].blocks)
           free == Cardinality(Block \ f.dbits)
           last == (offset + n) \div BlockLen
           more == IF last + 1 > used THEN last + 1 - used ELSE 0
           k == Smaller(more, free)
           h == GrowBlocks(f, i, more)
           room == Len(h.inodes[i].blocks) * BlockLen - offset
           part == SubSeq(buf, 1, Smaller(n, room))
           e == Store(h, i, offset, part)
           new == Larger(size, offset + Smaller(n, room))
<1>1. f \in DiskType /\ Owned(f) /\ Whole(f, i) /\ i \in Ino /\ f.ibits \subseteq Ino
  BY TypeFields DEF Good
<1>2. size \in 0..MaxSize /\ size \in Nat /\ used \in Nat /\ f.inodes[i].dir = FALSE
  BY <1>1, InodeType
<1>3. Fits(FALSE, size, used) /\ Holds(f, i, size)
  BY <1>1, <1>2 DEF Whole
<1>4. n \in Nat \ {0} /\ \A a \in 1 .. n : buf[a] \in Byte
  BY EmptySeq, ElementOfSeq, LenProperties
<1>5. offset + n \in Nat /\ last \in Nat
  <2>1. offset + n \in Nat
    BY <1>4
  <2> HIDE DEF n
  <2> QED BY <2>1, DivLemma
<1>6. more \in Nat
  <2> HIDE DEF last, used
  <2> QED BY <1>2, <1>5
<1>7. GrownBy(f, h, i, k) /\ free \in Nat
  <2> HIDE DEF more
  <2> QED BY <1>1, <1>6, GrowLemma
<1>8. /\ h \in DiskType /\ Owned(h) /\ h.ibits = f.ibits /\ i \in h.ibits
      /\ h.inodes[i].dir = FALSE /\ h.inodes[i].size = size
      /\ Len(h.inodes[i].blocks) = used + k
      /\ \A j \in f.ibits \ {i} : h.inodes[j] = f.inodes[j]
      /\ \A j \in f.ibits : Room(f, j) \subseteq Room(h, j)
      /\ \A j \in f.ibits : \A m \in Room(f, j) : CellAt(h, j, m) = CellAt(f, j, m)
  <2> HIDE DEF h, k
  <2> QED BY <1>2, <1>7 DEF GrownBy
<1>9. room = (used + k) * BlockLen - offset
  BY <1>8
<1> HIDE DEF h
<1>10. g = [e EXCEPT !.inodes[i].size = Larger(@, offset + Len(part))]
  BY DEF WriteFile, h
<1>11. /\ k \in Nat /\ room \in Nat
       /\ offset + Smaller(n, room) <= (used + k) * BlockLen
       /\ new \in 0..MaxSize
       /\ Fits(FALSE, new, used + k)
  <2>1. last = (offset + n) \div BlockLen /\ k = Smaller(IF last + 1 > used THEN last + 1 - used ELSE 0, free)
    OBVIOUS
  <2>2. offset <= size /\ offset + n <= MaxSize
    OBVIOUS
  <2> HIDE DEF n, size, used, free, last, k, room, more
  <2>3. WriteFit(size, used, offset, n, k, room)
    BY <2>1, <2>2, <1>2, <1>3, <1>4, <1>7, <1>9, WriteFits
  <2> QED BY <2>3 DEF WriteFit
<1> HIDE DEF n, size, used, free, last, more, k, room, new
<1>12. /\ part \in Seq(Byte) /\ part \in Seq(Value)
       /\ Len(part) = Smaller(n, room) /\ Len(part) \in 0 .. n
       /\ \A a \in 1 .. Len(part) : part[a] = buf[a]
  <2> DEFINE p == Smaller(n, room)
  <2>1. p \in Nat /\ p <= n
    BY <1>4, <1>11 DEF Smaller
  <2> HIDE DEF p
  <2>2. \A a \in 1 .. p : buf[a] \in Byte
    BY <2>1, <1>4
  <2>3. SubSeq(buf, 1, p) \in Seq(Byte) /\ Len(SubSeq(buf, 1, p)) = IF 1 <= p THEN p - 1 + 1 ELSE 0
    BY <2>1, <2>2, SubSeqProperties
  <2>4. part \in Seq(Byte) /\ Len(part) = p
    BY <2>1, <2>3 DEF p
  <2>7. \A a \in 1 .. p : part[a] = buf[a]
    <3>1. \A a \in 1 .. (p - 1 + 1) : SubSeq(buf, 1, p)[a] = buf[1 + a - 1]
      BY <2>1, <2>2, SubSeqProperties
    <3> QED BY <3>1, <2>1 DEF p
  <2>5. Byte \subseteq Value
    BY DEF Value
  <2>6. part \in Seq(Value)
    <3> HIDE DEF part
    <3> QED BY <2>4, <2>5, SeqMonotonic
  <2> HIDE DEF part
  <2> QED BY <2>1, <2>4, <2>6, <2>7 DEF p
<1> HIDE DEF part
<1>13. offset + Len(part) <= Len(h.inodes[i].blocks) * BlockLen
  BY <1>8, <1>11, <1>12
<1>14. /\ e \in DiskType
       /\ e.inodes = h.inodes /\ e.ibits = h.ibits /\ e.dbits = h.dbits
       /\ \A m \in Room(h, i) :
            CellAt(e, i, m) = IF m \in offset .. (offset + Len(part) - 1)
                              THEN part[m - offset + 1] ELSE CellAt(h, i, m)
       /\ \A j \in h.ibits \ {i} : \A m \in Room(h, j) : CellAt(e, j, m) = CellAt(h, j, m)
  <2>1. e = Store(h, i, offset, part)
    OBVIOUS
  <2> HIDE DEF e
  <2>2. StoredIn(h, e, i, offset, part)
    BY <2>1, <1>8, <1>12, <1>13, StoreLemma
  <2> QED BY <2>2 DEF StoredIn
<1> HIDE DEF e
<1>15. Owned(e) /\ i \in e.ibits
  BY <1>8, <1>14 DEF Owned
<1>16. g = [e EXCEPT !.inodes[i].size = new]
  <2>1. e.inodes[i].size = size
    BY <1>8, <1>14
  <2>2. e.inodes \in [Ino -> Inode] /\ e.inodes[i] \in Inode
    BY <1>1, <1>14, TypeFields
  <2>3. e = [inodes |-> e.inodes, ibits |-> e.ibits, dbits |-> e.dbits, data |-> e.data]
    BY <1>14, TypeFields
  <2>4. Larger(e.inodes[i].size, offset + Len(part)) = new
    BY <2>1, <1>12 DEF new
  <2> QED BY <1>10, <2>2, <2>3, <2>4
<1>17. /\ Owned(g) /\ ResizedBy(e, g, i, e.inodes[i].blocks, new, e.dbits)
       /\ \A m : CellAt(g, i, m) = CellAt(e, i, m)
  <2> QED BY <1>11, <1>14, <1>15, <1>16, SizedLemma
<1>18. /\ g \in DiskType /\ g.ibits = f.ibits
       /\ g.inodes[i].dir = FALSE /\ g.inodes[i].size = new
       /\ Len(g.inodes[i].blocks) = used + k
       /\ \A j \in f.ibits \ {i} : g.inodes[j] = f.inodes[j]
       /\ \A j \in f.ibits \ {i} : \A m : CellAt(g, j, m) = CellAt(e, j, m)
  <2> QED BY <1>8, <1>14, <1>17 DEF ResizedBy
<1>19. \A j \in f.ibits : 0 .. (f.inodes[j].size - 1) \subseteq Room(f, j)
  <2>1. \A j \in f.ibits : Fits(f.inodes[j].dir, f.inodes[j].size, Len(f.inodes[j].blocks))
    BY DEF Good, Whole
  <2> QED BY <2>1, <1>1, SizeInRoom
<1>20. OnlyThat(f, g, i)
  <2>1. ASSUME NEW j \in f.ibits \ {i}, NEW m \in 0 .. (f.inodes[j].size - 1)
        PROVE  CellAt(g, j, m) = CellAt(f, j, m)
    <3>1. m \in Room(f, j) /\ m \in Room(h, j)
      BY <1>8, <1>19
    <3> QED BY <3>1, <1>8, <1>14, <1>18
  <2> QED BY <2>1, <1>2, <1>17, <1>18 DEF OnlyThat
<1>21. ASSUME NEW m \in 0 .. (new - 1)
       PROVE  /\ CellAt(g, i, m) \in Byte
              /\ CellAt(g, i, m) = IF m \in offset .. (offset + Len(part) - 1)
                                  THEN buf[m - offset + 1] ELSE CellAt(f, i, m)
  <2>1. CellAt(g, i, m) = CellAt(e, i, m)
    BY <1>17
  <2>2. m \in Room(h, i)
    <3>1. Fits(g.inodes[i].dir, g.inodes[i].size, Len(g.inodes[i].blocks))
      BY <1>11, <1>18
    <3>2. m \in Room(g, i)
      BY <3>1, <1>1, <1>18, SizeInRoom
    <3> QED BY <3>2, <1>8, <1>18 DEF Room
  <2>3. CASE m \in offset .. (offset + Len(part) - 1)
    <3>1. m - offset + 1 \in 1 .. Len(part)
      BY <2>3, <1>12
    <3>2. part[m - offset + 1] \in Byte /\ part[m - offset + 1] = buf[m - offset + 1]
      BY <3>1, <1>12, ElementOfSeq
    <3> QED BY <2>1, <2>2, <2>3, <3>2, <1>14
  <2>4. CASE m \notin offset .. (offset + Len(part) - 1)
    <3>1. m \in 0 .. (size - 1)
      <4>1. offset <= size
        BY DEF size
      <4>2. new = IF size >= offset + Len(part) THEN size ELSE offset + Len(part)
        BY <1>12 DEF Larger, new
      <4> QED BY <4>1, <4>2, <2>4, <1>2, <1>12
    <3>2. m \in Room(f, i)
      BY <3>1, <1>19 DEF size
    <3>3. CellAt(f, i, m) \in Byte
      BY <3>1, <1>2, <1>3 DEF Holds, Kind
    <3> QED BY <2>1, <2>2, <2>4, <3>2, <3>3, <1>8, <1>14
  <2> QED BY <2>3, <2>4
<1>22. Whole(g, i)
  <2> QED BY <1>11, <1>18, <1>21 DEF Whole, Holds, Kind
<1>23. WroteIn(f, g, i, buf, offset)
  <2>1. Len(part) \in 0 .. Len(buf) /\ g.inodes[i].size = Larger(f.inodes[i].size, offset + Len(part))
    BY <1>12, <1>18 DEF n, size, new
  <2> QED BY <2>1, <1>18, <1>21 DEF WroteIn
<1> QED BY <1>20, <1>22, <1>23, GoodLemma


-----------------------------------------------------------------------------
(* Entries, and the inodes they name.                                       *)

\* Place n of inode d holds an entry.
Entry(f, d, n) ==
  /\ d \in f.ibits /\ f.inodes[d].dir = TRUE
  /\ n \in 0 .. (f.inodes[d].size - 1)

\* The entries name the inodes S, each of them once; the root is a directory.
NamedAs(f, S) ==
  /\ Root \in f.ibits /\ f.inodes[Root].dir = TRUE
  /\ \A d, n : Entry(f, d, n) => CellAt(f, d, n)[2] \in S
  /\ \A d, n, e, m : Entry(f, d, n) /\ Entry(f, e, m) /\ CellAt(f, d, n)[2] = CellAt(f, e, m)[2]
                       => d = e /\ n = m
  /\ \A j \in S : \E d, n : Entry(f, d, n) /\ CellAt(f, d, n)[2] = j

\* A disk with the entries of another names what that names.
LEMMA NamesKept ==
  ASSUME NEW f, NEW g, NEW S, NamedAs(f, S),
         Root \in g.ibits, g.inodes[Root].dir = TRUE,
         \A d, n : Entry(g, d, n) <=> Entry(f, d, n),
         \A d, n : Entry(f, d, n) => CellAt(g, d, n) = CellAt(f, d, n)
  PROVE  NamedAs(g, S)
BY DEF NamedAs

\* A change of a file changes no entry.
LEMMA FileNames ==
  ASSUME NEW f, NEW g, NEW i \in f.ibits, NEW S, OnlyThat(f, g, i),
         ~f.inodes[i].dir, NamedAs(f, S)
  PROVE  NamedAs(g, S)
<1>1. g.ibits = f.ibits
  BY DEF OnlyThat
<1>2. \A d, n : Entry(g, d, n) <=> Entry(f, d, n)
  BY DEF OnlyThat, Entry
<1>3. \A d, n : Entry(f, d, n) => CellAt(g, d, n) = CellAt(f, d, n)
  BY DEF OnlyThat, Entry
<1>4. Root \in g.ibits /\ g.inodes[Root].dir = TRUE
  BY <1>1 DEF NamedAs, OnlyThat
<1> QED BY <1>2, <1>3, <1>4, NamesKept

\* init_inode() takes an inode that is free.
LEMMA InitInodeLemma ==
  ASSUME NEW f \in DiskType, HasFree(f.ibits, Ino), NEW dir,
         NEW i, i = GetFreeBit(f.ibits, Ino), NEW g, g = InitInode(f, dir)
  PROVE  i \in Ino \ f.ibits /\ Taken(f, g, i, dir)
<1>1. Ino \ f.ibits \in SUBSET Nat /\ IsFiniteSet(Ino \ f.ibits)
  BY Disk, FS_Subset
<1>2. i \in Ino \ f.ibits
  BY <1>1, LeastLemma DEF HasFree, GetFreeBit
<1>3. f = [inodes |-> f.inodes, ibits |-> f.ibits, dbits |-> f.dbits, data |-> f.data]
  BY TypeFields
<1>4. g = [f EXCEPT !.ibits = @ \cup {i}, !.inodes[i] = [dir |-> dir, size |-> 0, blocks |-> <<>>]]
  BY DEF InitInode
<1>5. Taken(f, g, i, dir)
  BY <1>3, <1>4 DEF Taken
<1> QED BY <1>2, <1>5

LEMMA NoneFits == ASSUME NEW dir PROVE Fits(dir, 0, 0)
<1>1. BlockLen \in Nat \ {0} /\ MaxBlocks \in Nat /\ 0 * BlockLen = 0
  BY Disk
<1> QED BY <1>1 DEF Fits

\* An inode that is taken holds nothing and has no entry.
LEMMA TakenGood ==
  ASSUME NEW f, Good(f), NEW i \in Ino \ f.ibits, NEW dir \in BOOLEAN,
         NEW g, Taken(f, g, i, dir)
  PROVE  /\ Good(g) /\ g.ibits = f.ibits \cup {i} /\ g.dbits = f.dbits
         /\ \A j \in f.ibits : g.inodes[j] = f.inodes[j]
         /\ g.inodes[i].dir = dir /\ g.inodes[i].size = 0
         /\ \A j \in f.ibits : \A n : CellAt(g, j, n) = CellAt(f, j, n)
         /\ \A d, n : Entry(g, d, n) <=> Entry(f, d, n)
         /\ \A d, n : Entry(f, d, n) => CellAt(g, d, n) = CellAt(f, d, n)
<1>1. f \in DiskType /\ Owned(f) /\ \A j \in f.ibits : Whole(f, j)
  BY DEF Good
<1>2. /\ g \in DiskType /\ Owned(g)
      /\ g.ibits = f.ibits \cup {i} /\ g.dbits = f.dbits
      /\ g.inodes[i].dir = dir /\ g.inodes[i].size = 0
      /\ Len(g.inodes[i].blocks) = 0
      /\ \A j \in f.ibits : /\ g.inodes[j] = f.inodes[j]
                            /\ \A n : CellAt(g, j, n) = CellAt(f, j, n)
  BY <1>1, TakenLemma
<1>3. ASSUME NEW j \in f.ibits PROVE Whole(g, j)
  <2>1. Whole(f, j) /\ g.inodes[j] = f.inodes[j] /\ \A n : CellAt(g, j, n) = CellAt(f, j, n)
    BY <1>1, <1>2
  <2> QED BY <2>1 DEF Whole, Holds, Kind
<1>4. Whole(g, i)
  <2>1. Holds(g, i, 0)
    BY DEF Holds
  <2> QED BY <2>1, <1>2, NoneFits DEF Whole
<1>5. Good(g)
  BY <1>2, <1>3, <1>4 DEF Good
<1>6. \A n : n \notin 0 .. (g.inodes[i].size - 1)
  BY <1>2
<1>7. \A d, n : Entry(g, d, n) <=> Entry(f, d, n)
  BY <1>2, <1>6 DEF Entry
<1>8. \A d, n : Entry(f, d, n) => CellAt(g, d, n) = CellAt(f, d, n)
  BY <1>2 DEF Entry
<1> QED BY <1>2, <1>5, <1>7, <1>8

LEMMA Edited ==
  ASSUME NEW f \in DiskType, NEW i \in Ino, NEW x, NEW y
  PROVE  [[f.inodes[i] EXCEPT !.blocks = x] EXCEPT !.size = y]
           = [dir |-> f.inodes[i].dir, size |-> y, blocks |-> x]
<1> DEFINE r == f.inodes[i]
<1>1. r = [dir |-> r.dir, size |-> r.size, blocks |-> r.blocks]
  BY InodeType
<1> HIDE DEF r
<1>2. [r EXCEPT !.blocks = x] = [dir |-> r.dir, size |-> r.size, blocks |-> x]
  BY <1>1
<1>3. \A a, b, c, z : [[dir |-> a, size |-> b, blocks |-> c] EXCEPT !.size = z]
                       = [dir |-> a, size |-> z, blocks |-> c]
  OBVIOUS
<1>4. [[r EXCEPT !.blocks = x] EXCEPT !.size = y] = [dir |-> r.dir, size |-> y, blocks |-> x]
  <2> DEFINE q == [r EXCEPT !.blocks = x]
  <2>1. q = [dir |-> r.dir, size |-> r.size, blocks |-> x]
    BY <1>2
  <2> HIDE DEF q
  <2>2. [q EXCEPT !.size = y] = [dir |-> r.dir, size |-> y, blocks |-> x]
    BY <2>1, <1>3
  <2> QED BY <2>2 DEF q
<1> QED BY <1>4 DEF r

\* shrink_file() leaves what is before the new end.
LEMMA ShrinkLemma ==
  ASSUME NEW f, Good(f), NEW i \in f.ibits, NEW length \in Nat,
         NEW g, g = ShrinkFile(f, i, length)
  PROVE  /\ Good(g) /\ OnlyThat(f, g, i)
         /\ f.inodes[i].dir => g = f
         /\ ~f.inodes[i].dir => g.inodes[i].size <= length
         /\ ~f.inodes[i].dir /\ length < f.inodes[i].size =>
              /\ g.inodes[i].size = length
              /\ \A m \in 0 .. (length - 1) : CellAt(g, i, m) = CellAt(f, i, m)
<1> DEFINE size == f.inodes[i].size
           s == f.inodes[i].blocks
           keep == length \div BlockLen + (IF length % BlockLen > 0 THEN 1 ELSE 0)
           bits == f.dbits \ {s[a] : a \in (keep + 1) .. Len(s)}
           t == SubSeq(s, 1, keep)
<1>1. f \in DiskType /\ Owned(f) /\ Whole(f, i) /\ i \in Ino /\ f.ibits \subseteq Ino
      /\ f.dbits \in SUBSET Block
  BY TypeFields DEF Good
<1>2. size \in 0..MaxSize /\ size \in Nat /\ f.inodes[i].dir \in BOOLEAN
      /\ s \in Seq(Block) /\ Len(s) \in Nat
      /\ f.inodes[i] = [dir |-> f.inodes[i].dir, size |-> size, blocks |-> s]
  BY <1>1, InodeType
<1>3. CASE f.inodes[i].dir \/ size <= length
  <2>1. g = f
    BY <1>3 DEF ShrinkFile
  <2>2. OnlyThat(f, g, i)
    BY <2>1, <1>1 DEF OnlyThat
  <2> QED BY <2>1, <2>2, <1>2, <1>3
<1>4. CASE ~(f.inodes[i].dir \/ size <= length)
  <2>0. f.inodes[i].dir = FALSE /\ length < size /\ length \in 0..MaxSize
    BY <1>2, <1>4, Disk
  <2>1. keep \in 0 .. Len(s) /\ Fits(FALSE, length, keep)
    <3>1. Fits(FALSE, size, Len(s))
      BY <1>1, <2>0 DEF Whole
    <3>2. keep = length \div BlockLen + (IF length % BlockLen > 0 THEN 1 ELSE 0)
      OBVIOUS
    <3> HIDE DEF size, s, keep
    <3> QED BY <3>1, <3>2, <1>2, <2>0, ShrinkFits
  <2>2. g = [f EXCEPT !.dbits = bits, !.inodes[i].blocks = t, !.inodes[i].size = length]
    BY <1>4 DEF ShrinkFile
  <2>3. Resized(f, g, i, t, length, bits)
    <3>1. /\ f = [inodes |-> f.inodes, ibits |-> f.ibits, dbits |-> f.dbits, data |-> f.data]
          /\ f.inodes \in [Ino -> Inode]
      BY <1>1, TypeFields
    <3>2. \A x, y : [[f.inodes[i] EXCEPT !.blocks = x] EXCEPT !.size = y]
                      = [dir |-> f.inodes[i].dir, size |-> y, blocks |-> x]
      BY <1>1, Edited
    <3> HIDE DEF t, bits
    <3>3. /\ g = [inodes |-> g.inodes, ibits |-> f.ibits, dbits |-> bits, data |-> f.data]
          /\ g.inodes = [f.inodes EXCEPT ![i] = [[f.inodes[i] EXCEPT !.blocks = t] EXCEPT !.size = length]]
      <4>1. /\ g = [inodes |-> g.inodes, ibits |-> f.ibits, dbits |-> bits, data |-> f.data]
            /\ g.inodes = [f.inodes EXCEPT ![i].blocks = t, ![i].size = length]
        BY <3>1, <2>2
      <4>2. [f.inodes EXCEPT ![i].blocks = t, ![i].size = length]
              = [f.inodes EXCEPT ![i] = [[f.inodes[i] EXCEPT !.blocks = t] EXCEPT !.size = length]]
        <5> HIDE DEF s, size
        <5> QED BY <3>1, <1>1
      <4> QED BY <4>1, <4>2
    <3>4. g.inodes = [f.inodes EXCEPT ![i] = [dir |-> f.inodes[i].dir, size |-> length, blocks |-> t]]
      BY <3>2, <3>3
    <3> QED BY <3>3, <3>4 DEF Resized
  <2>4. /\ g \in DiskType /\ Owned(g) /\ Len(g.inodes[i].blocks) = keep
        /\ \A m \in Room(g, i) : m \in Room(f, i) /\ CellAt(g, i, m) = CellAt(f, i, m)
    <3>1. keep \in 0 .. Len(f.inodes[i].blocks)
      BY <2>1
    <3>2. Resized(f, g, i, SubSeq(f.inodes[i].blocks, 1, keep), length, Kept(f, i, keep))
      BY <2>3 DEF Kept
    <3> HIDE DEF keep, t, bits, s, size
    <3> QED BY <3>1, <3>2, <1>1, <2>0, DroppedLemma
  <2>5. ResizedBy(f, g, i, t, length, bits)
    <3>1. t \in Seq(Block) /\ bits \in SUBSET Block
      <4>1. \A a \in 1 .. keep : s[a] \in Block
        <5> HIDE DEF s, keep
        <5> QED BY <1>2, <2>1, ElementOfSeq
      <4>2. t \in Seq(Block)
        <5> HIDE DEF s, keep
        <5> QED BY <4>1, <2>1, <1>2, SubSeqProperties
      <4> QED BY <4>2, <1>1
    <3> HIDE DEF t, bits
    <3> QED BY <3>1, <2>0, <2>3, <1>1, ResizedFields
  <2>6. OnlyThat(f, g, i)
    BY <2>4, <2>5 DEF OnlyThat, ResizedBy
  <2>7. g.inodes[i].dir = FALSE /\ g.inodes[i].size = length
    BY <2>0, <2>5 DEF ResizedBy
  <2>9. 0 .. (length - 1) \subseteq Room(g, i)
    <3> HIDE DEF keep
    <3> QED BY <2>1, <2>4, <2>7, <1>1, SizeInRoom
  <2>8. Whole(g, i)
    <3> HIDE DEF keep
    <3>2. ASSUME NEW m \in 0 .. (length - 1) PROVE CellAt(g, i, m) \in Byte
      <4>1. CellAt(g, i, m) = CellAt(f, i, m) /\ m \in 0 .. (size - 1)
        BY <2>9, <2>0, <2>4, <1>2
      <4> QED BY <4>1, <2>0, <1>1 DEF Whole, Holds, Kind
    <3> QED BY <3>2, <2>1, <2>4, <2>7 DEF Whole, Holds, Kind
  <2>10. \A m \in 0 .. (length - 1) : CellAt(g, i, m) = CellAt(f, i, m)
    BY <2>4, <2>9
  <2> HIDE DEF size, s, keep, bits, t
  <2> QED BY <2>0, <2>6, <2>7, <2>8, <2>10, GoodLemma
<1> QED BY <1>3, <1>4


\* insert_dentry() of an entry x at the end of directory d.
Inserted(f, g, d, x) ==
  /\ Good(g) /\ OnlyThat(f, g, d)
  /\ g.inodes[d].size = f.inodes[d].size + 1
  /\ \A m \in 0 .. (f.inodes[d].size - 1) : CellAt(g, d, m) = CellAt(f, d, m)
  /\ CellAt(g, d, f.inodes[d].size) = x

LEMMA InsertLemma ==
  ASSUME NEW f, Good(f), NEW d \in f.ibits, f.inodes[d].dir, f.inodes[d].size < MaxSize,
         HasFree(f.dbits, Block), NEW ino \in Ino, NEW name \in Name,
         NEW g, g = InsertDentry(f, d, ino, name)
  PROVE  Inserted(f, g, d, <<name, ino>>)
<1> DEFINE size == f.inodes[d].size
           used == Len(f.inodes[d].blocks)
           full == size = used * BlockLen
           k == IF full THEN 1 ELSE 0
           h == IF full THEN GrowBlocks(f, d, 1) ELSE f
           x == <<name, ino>>
           e == Store(h, d, size, <<x>>)
<1>1. f \in DiskType /\ Owned(f) /\ Whole(f, d) /\ d \in Ino /\ f.ibits \subseteq Ino
      /\ f.dbits \in SUBSET Block
  BY TypeFields DEF Good
<1>2. size \in 0..MaxSize /\ size \in Nat /\ used \in Nat /\ f.inodes[d].dir = TRUE
      /\ size + 1 \in 0..MaxSize /\ used + k \in Nat
  <2>1. size \in 0..MaxSize /\ size \in Nat /\ used \in Nat /\ f.inodes[d].dir = TRUE
    BY <1>1, InodeType
  <2>2. size < MaxSize /\ k \in {0, 1}
    OBVIOUS
  <2> HIDE DEF size, used, k
  <2> QED BY <2>1, <2>2, Disk
<1>3. Fits(TRUE, size, used) /\ Holds(f, d, size)
  BY <1>1, <1>2 DEF Whole
<1>4. Fits(TRUE, size + 1, used + k) /\ size < (used + k) * BlockLen
  <2>1. size < MaxSize
    OBVIOUS
  <2>2. (full => k = 1) /\ (~full => k = 0) /\ (full <=> size = used * BlockLen)
    OBVIOUS
  <2> HIDE DEF size, used, full, k
  <2>3. IF size = used * BlockLen THEN Fits(TRUE, size + 1, used + 1) /\ size < (used + 1) * BlockLen
        ELSE Fits(TRUE, size + 1, used) /\ size < used * BlockLen
    BY <2>1, <1>2, <1>3, InsertFits
  <2>4. used + 0 = used
    BY <1>2
  <2> QED BY <2>2, <2>3, <2>4
<1>5. GrownBy(f, h, d, k)
  <2>1. CASE full
    <3>1. Smaller(1, Cardinality(Block \ f.dbits)) = 1
      <4>1. IsFiniteSet(Block \ f.dbits)
        BY Disk, FS_Subset
      <4>2. Cardinality(Block \ f.dbits) \in Nat /\ Cardinality(Block \ f.dbits) # 0
        BY <4>1, FS_CardinalityType, FS_EmptySet DEF HasFree
      <4> QED BY <4>2 DEF Smaller
    <3>2. h = GrowBlocks(f, d, 1) /\ k = 1
      BY <2>1
    <3> HIDE DEF h, k, full
    <3> QED BY <3>1, <3>2, <1>1, GrowLemma
  <2>2. CASE ~full
    <3>1. h = f /\ k = 0
      BY <2>2
    <3> HIDE DEF h, k, full
    <3>2. Len(f.inodes[d].blocks) + 0 = Len(f.inodes[d].blocks)
      BY <1>2
    <3> QED BY <3>1, <3>2, <1>1 DEF GrownBy
  <2> QED BY <2>1, <2>2
<1>6. g = [e EXCEPT !.inodes[d].size = @ + 1]
  BY DEF InsertDentry
<1> HIDE DEF h, k, full
<1>7. /\ h \in DiskType /\ Owned(h) /\ h.ibits = f.ibits /\ d \in h.ibits
      /\ h.inodes[d].dir = TRUE /\ h.inodes[d].size = size
      /\ Len(h.inodes[d].blocks) = used + k
      /\ \A j \in f.ibits \ {d} : h.inodes[j] = f.inodes[j]
      /\ \A j \in f.ibits : Room(f, j) \subseteq Room(h, j)
      /\ \A j \in f.ibits : \A m \in Room(f, j) : CellAt(h, j, m) = CellAt(f, j, m)
  BY <1>2, <1>5 DEF GrownBy
<1>8. x \in Name \X Ino /\ <<x>> \in Seq(Value) /\ Len(<<x>>) = 1 /\ <<x>>[1] = x
  <2>1. x \in Name \X Ino
    OBVIOUS
  <2> HIDE DEF x
  <2> QED BY <2>1 DEF Value
<1>9. /\ e \in DiskType
      /\ e.inodes = h.inodes /\ e.ibits = h.ibits /\ e.dbits = h.dbits
      /\ \A m \in Room(h, d) :
           CellAt(e, d, m) = IF m \in size .. (size + 1 - 1)
                             THEN <<x>>[m - size + 1] ELSE CellAt(h, d, m)
      /\ \A j \in h.ibits \ {d} : \A m \in Room(h, j) : CellAt(e, j, m) = CellAt(h, j, m)
  <2> DEFINE sq == <<x>>
  <2>1. e = Store(h, d, size, sq)
    OBVIOUS
  <2>2. size + Len(sq) <= Len(h.inodes[d].blocks) * BlockLen
    <3>1. (used + k) * BlockLen \in Nat
      BY <1>2, Times
    <3> HIDE DEF size, used
    <3> QED BY <3>1, <1>2, <1>4, <1>7, <1>8
  <2>3. sq \in Seq(Value) /\ Len(sq) = 1
    BY <1>8
  <2> HIDE DEF e, sq, size
  <2>4. StoredIn(h, e, d, size, sq)
    BY <2>1, <2>2, <2>3, <1>2, <1>7, StoreLemma
  <2> QED BY <2>3, <2>4 DEF StoredIn, sq
<1> HIDE DEF e, x
<1>10. Owned(e) /\ d \in e.ibits
  BY <1>7, <1>9 DEF Owned
<1>11. g = [e EXCEPT !.inodes[d].size = size + 1]
  <2>1. e.inodes[d].size = size
    BY <1>7, <1>9
  <2>2. e.inodes \in [Ino -> Inode] /\ e.inodes[d] \in Inode
    BY <1>1, <1>9, TypeFields
  <2>3. e = [inodes |-> e.inodes, ibits |-> e.ibits, dbits |-> e.dbits, data |-> e.data]
    BY <1>9, TypeFields
  <2> HIDE DEF size
  <2> QED BY <1>6, <2>1, <2>2, <2>3
<1>12. /\ Owned(g) /\ ResizedBy(e, g, d, e.inodes[d].blocks, size + 1, e.dbits)
       /\ \A m : CellAt(g, d, m) = CellAt(e, d, m)
  <2> HIDE DEF size
  <2> QED BY <1>2, <1>9, <1>10, <1>11, SizedLemma
<1>13. /\ g \in DiskType /\ g.ibits = f.ibits
       /\ g.inodes[d].dir = TRUE /\ g.inodes[d].size = size + 1
       /\ Len(g.inodes[d].blocks) = used + k
       /\ \A j \in f.ibits \ {d} : g.inodes[j] = f.inodes[j]
       /\ \A j \in f.ibits \ {d} : \A m : CellAt(g, j, m) = CellAt(e, j, m)
  BY <1>7, <1>9, <1>12 DEF ResizedBy
<1>14. \A j \in f.ibits : 0 .. (f.inodes[j].size - 1) \subseteq Room(f, j)
  <2>1. \A j \in f.ibits : Fits(f.inodes[j].dir, f.inodes[j].size, Len(f.inodes[j].blocks))
    BY DEF Good, Whole
  <2> QED BY <2>1, <1>1, SizeInRoom
<1>15. OnlyThat(f, g, d)
  <2>1. ASSUME NEW j \in f.ibits \ {d}, NEW m \in 0 .. (f.inodes[j].size - 1)
        PROVE  CellAt(g, j, m) = CellAt(f, j, m)
    <3>1. m \in Room(f, j) /\ m \in Room(h, j)
      BY <1>7, <1>14
    <3> QED BY <3>1, <1>7, <1>9, <1>13
  <2> QED BY <2>1, <1>2, <1>12, <1>13 DEF OnlyThat
<1>16. ASSUME NEW m \in 0 .. (size - 1) PROVE CellAt(g, d, m) = CellAt(f, d, m)
  <2>1. m \in Room(f, d) /\ m \in Room(h, d) /\ m < size
    BY <1>2, <1>7, <1>14
  <2> QED BY <2>1, <1>2, <1>7, <1>9, <1>12
<1>17. CellAt(g, d, size) = x
  <2>1. size \in Room(h, d)
    <3>1. (used + k) * BlockLen \in Nat
      BY <1>2, Times
    <3> HIDE DEF size, used
    <3> QED BY <3>1, <1>2, <1>4, <1>7 DEF Room
  <2>2. size \in size .. (size + 1 - 1) /\ size - size + 1 = 1
    BY <1>2
  <2> QED BY <2>1, <2>2, <1>8, <1>9, <1>12
<1>18. Whole(g, d)
  <2>1. ASSUME NEW m \in 0 .. ((size + 1) - 1) PROVE CellAt(g, d, m) \in Name \X Ino
    <3>1. CASE m = size
      BY <3>1, <1>8, <1>17
    <3>2. CASE m # size
      <4>1. m \in 0 .. (size - 1)
        BY <3>2, <1>2
      <4> QED BY <4>1, <1>2, <1>3, <1>16 DEF Holds, Kind
    <3> QED BY <3>1, <3>2
  <2> HIDE DEF size, used
  <2>2. Fits(g.inodes[d].dir, g.inodes[d].size, Len(g.inodes[d].blocks))
    BY <1>4, <1>13
  <2>3. Holds(g, d, size + 1)
    <3>1. Kind(g, d) = Name \X Ino
      BY <1>13 DEF Kind
    <3> QED BY <2>1, <3>1 DEF Holds
  <2> QED BY <2>2, <2>3, <1>13 DEF Whole
<1>19. Good(g)
  BY <1>15, <1>18, GoodLemma
<1> QED BY <1>13, <1>15, <1>16, <1>17, <1>19 DEF Inserted, x

\* A new entry names what it says, and the others what they did.
LEMMA InsertNames ==
  ASSUME NEW f, Good(f), NEW d \in f.ibits, f.inodes[d].dir = TRUE,
         NEW S, NamedAs(f, S), NEW ino, ino \notin S, NEW name,
         NEW g, Inserted(f, g, d, <<name, ino>>)
  PROVE  NamedAs(g, S \cup {ino})
<1> DEFINE size == f.inodes[d].size
<1>1. f \in DiskType /\ d \in Ino
  BY TypeFields DEF Good
<1>2. size \in Nat
  BY <1>1, InodeType
<1>3. /\ g.ibits = f.ibits /\ g.inodes[d].dir = f.inodes[d].dir /\ g.inodes[d].size = size + 1
      /\ \A j \in f.ibits \ {d} : g.inodes[j] = f.inodes[j]
      /\ \A j \in f.ibits \ {d} : \A m \in 0 .. (f.inodes[j].size - 1) : CellAt(g, j, m) = CellAt(f, j, m)
      /\ \A m \in 0 .. (size - 1) : CellAt(g, d, m) = CellAt(f, d, m)
      /\ CellAt(g, d, size)[2] = ino
  BY DEF Inserted, OnlyThat
<1>4. 0 .. (size + 1 - 1) = 0 .. (size - 1) \cup {size} /\ size \notin 0 .. (size - 1)
  BY <1>2
<1> HIDE DEF size
<1>5. \A c, n : Entry(g, c, n) <=> Entry(f, c, n) \/ (c = d /\ n = size)
  BY <1>3, <1>4 DEF Entry, size
<1>6. ~Entry(f, d, size)
  BY <1>4 DEF Entry, size
<1>7. \A c, n : Entry(f, c, n) => CellAt(g, c, n) = CellAt(f, c, n)
  BY <1>3 DEF Entry, size
<1>8. /\ Root \in f.ibits /\ f.inodes[Root].dir = TRUE
      /\ \A c, n : Entry(f, c, n) => CellAt(f, c, n)[2] \in S
      /\ \A c, n, b, m : Entry(f, c, n) /\ Entry(f, b, m) /\ CellAt(f, c, n)[2] = CellAt(f, b, m)[2]
                       => c = b /\ n = m
      /\ \A j \in S : \E c, n : Entry(f, c, n) /\ CellAt(f, c, n)[2] = j
  BY DEF NamedAs
<1>9. Root \in g.ibits /\ g.inodes[Root].dir = TRUE
  BY <1>3, <1>8
<1>10. \A c, n : Entry(g, c, n) => CellAt(g, c, n)[2] \in S \cup {ino}
  BY <1>3, <1>5, <1>7, <1>8
<1>11. ASSUME NEW c, NEW n, NEW b, NEW m, Entry(g, c, n), Entry(g, b, m),
              CellAt(g, c, n)[2] = CellAt(g, b, m)[2]
       PROVE  c = b /\ n = m
  BY <1>3, <1>5, <1>7, <1>8, <1>11
<1>12. ASSUME NEW j \in S \cup {ino} PROVE \E c, n : Entry(g, c, n) /\ CellAt(g, c, n)[2] = j
  <2>1. CASE j = ino
    BY <2>1, <1>3, <1>5
  <2>2. CASE j \in S
    BY <2>2, <1>5, <1>7, <1>8
  <2> QED BY <2>1, <2>2
<1> QED BY <1>9, <1>10, <1>11, <1>12 DEF NamedAs


\* The loops of unlink_inode() take entry k out of directory d.
Removed(f, g, d, k) ==
  /\ Good(g) /\ OnlyThat(f, g, d)
  /\ g.inodes[d].size = f.inodes[d].size - 1
  /\ \A m \in 0 .. (f.inodes[d].size - 2) :
       CellAt(g, d, m) = CellAt(f, d, IF m < k THEN m ELSE m + 1)

LEMMA RemoveLemma ==
  ASSUME NEW f, Good(f), NEW d \in f.ibits, f.inodes[d].dir,
         NEW k \in 0 .. (f.inodes[d].size - 1),
         NEW g, g = RemoveDentry(f, d, k)
  PROVE  Removed(f, g, d, k)
<1> DEFINE n == f.inodes[d].size
           s == f.inodes[d].blocks
           used == Len(s)
           sq == [i \in 1 .. (n - 1 - k) |-> CellAt(f, d, k + i)]
           e == Store(f, d, k, sq)
           c == [e EXCEPT !.inodes[d].size = n - 1]
           stay == (n - 1) % BlockLen # 0
           keep == IF stay THEN used ELSE used - 1
<1>1. f \in DiskType /\ Owned(f) /\ Whole(f, d) /\ d \in Ino /\ f.ibits \subseteq Ino
      /\ f.dbits \in SUBSET Block
  BY TypeFields DEF Good
<1>2. n \in 0..MaxSize /\ n \in Nat /\ used \in Nat /\ f.inodes[d].dir = TRUE
      /\ s \in Seq(Block)
  BY <1>1, InodeType
<1>3. k \in Nat /\ k <= n - 1 /\ n \in Nat \ {0} /\ n - 1 \in Nat /\ n - 1 \in 0..MaxSize
      /\ n - 1 - k \in Nat
  <2>1. k \in 0 .. (n - 1)
    OBVIOUS
  <2> HIDE DEF n
  <2> QED BY <2>1, <1>2, Disk
<1>4. Fits(TRUE, n, used) /\ Holds(f, d, n) /\ Kind(f, d) = Name \X Ino
  BY <1>1, <1>2 DEF Whole, Kind
<1>5. \A j \in f.ibits : 0 .. (f.inodes[j].size - 1) \subseteq Room(f, j)
  <2>1. \A j \in f.ibits : Fits(f.inodes[j].dir, f.inodes[j].size, Len(f.inodes[j].blocks))
    BY DEF Good, Whole
  <2> QED BY <2>1, <1>1, SizeInRoom
<1>6. keep \in Nat /\ keep \in 0 .. used /\ Fits(TRUE, n - 1, keep) /\ (~stay => used \in Nat \ {0})
  <2>1. IF stay THEN Fits(TRUE, n - 1, used) ELSE used \in Nat \ {0} /\ Fits(TRUE, n - 1, used - 1)
    <3> HIDE DEF n, used
    <3> QED BY <1>2, <1>3, <1>4, RemoveFits
  <2>2. (stay => keep = used) /\ (~stay => keep = used - 1)
    OBVIOUS
  <2> HIDE DEF n, used, stay, keep
  <2>3. CASE stay
    <3>1. Fits(TRUE, n - 1, used) /\ keep = used
      BY <2>1, <2>2, <2>3
    <3>2. used \in 0 .. used
      BY <1>2
    <3> QED BY <3>1, <3>2, <2>3, <1>2
  <2>4. CASE ~stay
    <3>1. used \in Nat \ {0} /\ Fits(TRUE, n - 1, used - 1) /\ keep = used - 1
      BY <2>1, <2>2, <2>4
    <3>2. keep \in Nat /\ keep \in 0 .. used
      BY <3>1
    <3> QED BY <3>1, <3>2
  <2> QED BY <2>3, <2>4
<1>7. g = IF stay THEN c
          ELSE [c EXCEPT !.dbits = @ \ {s[Len(s)]}, !.inodes[d].blocks = Front(@)]
  BY DEF RemoveDentry
<1>8. \A m \in 0 .. (n - 1) : CellAt(f, d, m) \in Name \X Ino
  <2> HIDE DEF n
  <2> QED BY <1>4 DEF Holds
<1>9. sq \in Seq(Value) /\ Len(sq) = n - 1 - k /\ \A i \in 1 .. (n - 1 - k) : sq[i] = CellAt(f, d, k + i)
  <2>1. ASSUME NEW i \in 1 .. (n - 1 - k) PROVE CellAt(f, d, k + i) \in Value
    <3>1. k + i \in 0 .. (n - 1)
      <4> HIDE DEF n
      <4> QED BY <1>3
    <3> HIDE DEF n
    <3>2. CellAt(f, d, k + i) \in Name \X Ino
      BY <3>1, <1>8
    <3> QED BY <3>2 DEF Value
  <2> HIDE DEF n
  <2> QED BY <2>1, <1>3
<1> HIDE DEF sq
<1>10. /\ e \in DiskType
       /\ e.inodes = f.inodes /\ e.ibits = f.ibits /\ e.dbits = f.dbits
       /\ \A m \in Room(f, d) :
            CellAt(e, d, m) = IF m \in k .. ((k + Len(sq)) - 1)
                              THEN sq[m - k + 1] ELSE CellAt(f, d, m)
       /\ \A j \in f.ibits \ {d} : \A m \in Room(f, j) : CellAt(e, j, m) = CellAt(f, j, m)
  <2>1. e = Store(f, d, k, sq)
    OBVIOUS
  <2>2. k + Len(sq) <= used * BlockLen
    <3>1. used * BlockLen \in Nat /\ n <= used * BlockLen
      BY <1>2, <1>4, Times DEF Fits
    <3> HIDE DEF n, used
    <3> QED BY <3>1, <1>3, <1>9
  <2> HIDE DEF e, n
  <2>3. StoredIn(f, e, d, k, sq)
    BY <2>1, <2>2, <1>1, <1>3, <1>9, StoreLemma
  <2> QED BY <2>3 DEF StoredIn
<1> HIDE DEF e
<1>11. Owned(e) /\ d \in e.ibits
  BY <1>1, <1>10 DEF Owned
<1>12. /\ Owned(c) /\ ResizedBy(e, c, d, e.inodes[d].blocks, n - 1, e.dbits)
       /\ \A m : CellAt(c, d, m) = CellAt(e, d, m)
  <2>1. c = [e EXCEPT !.inodes[d].size = n - 1]
    OBVIOUS
  <2> DEFINE p == n - 1
  <2>2. e \in DiskType /\ p \in 0..MaxSize /\ c = [e EXCEPT !.inodes[d].size = p]
    BY <2>1, <1>3, <1>10
  <2> HIDE DEF n, c, p
  <2>3. /\ Owned(c) /\ ResizedBy(e, c, d, e.inodes[d].blocks, p, e.dbits)
        /\ \A m : CellAt(c, d, m) = CellAt(e, d, m)
    BY <2>2, <1>11, SizedLemma
  <2> QED BY <2>3 DEF p
<1> HIDE DEF c
<1>13. /\ c \in DiskType /\ c.ibits = f.ibits /\ d \in c.ibits /\ c.dbits = f.dbits
       /\ c.inodes[d].dir = TRUE /\ c.inodes[d].size = n - 1
       /\ c.inodes[d].blocks = s
       /\ \A j \in f.ibits \ {d} : c.inodes[j] = f.inodes[j]
       /\ \A j \in f.ibits \ {d} : \A m : CellAt(c, j, m) = CellAt(e, j, m)
  BY <1>2, <1>10, <1>12 DEF ResizedBy
<1>14. /\ g \in DiskType /\ Owned(g) /\ g.ibits = f.ibits
       /\ g.inodes[d].dir = TRUE /\ g.inodes[d].size = n - 1
       /\ Len(g.inodes[d].blocks) = keep
       /\ \A m \in Room(g, d) : CellAt(g, d, m) = CellAt(c, d, m)
       /\ \A j \in f.ibits \ {d} : g.inodes[j] = f.inodes[j]
       /\ \A j \in f.ibits \ {d} : \A m : CellAt(g, j, m) = CellAt(e, j, m)
  <2>1. CASE stay
    <3>1. g = c /\ keep = used
      BY <2>1, <1>7
    <3> HIDE DEF n, keep
    <3> QED BY <3>1, <1>12, <1>13
  <2>2. CASE ~stay
    <3>1. g = [c EXCEPT !.dbits = @ \ {s[Len(s)]}, !.inodes[d].blocks = Front(@)]
      BY <2>2, <1>7
    <3>2. /\ keep = used - 1 /\ used \in Nat \ {0} /\ keep \in 0 .. used
      BY <2>2, <1>6
    <3>3. Kept(c, d, keep) = c.dbits \ {s[Len(s)]}
      <4>1. (keep + 1) .. Len(s) = {Len(s)}
        <5> HIDE DEF s, keep
        <5> QED BY <3>2 DEF used
      <4> HIDE DEF s, keep
      <4> QED BY <4>1, <1>13 DEF Kept
    <3>4. Resized(c, g, d, SubSeq(s, 1, keep), n - 1, Kept(c, d, keep))
      <4>1. c = [inodes |-> c.inodes, ibits |-> c.ibits, dbits |-> c.dbits, data |-> c.data]
            /\ c.inodes \in [Ino -> Inode]
        BY <1>13, TypeFields
      <4>2. Front(c.inodes[d].blocks) = SubSeq(s, 1, keep)
        <5> HIDE DEF s, keep
        <5> QED BY <3>2, <1>13 DEF Front, used
      <4>3. c.inodes[d] = [dir |-> c.inodes[d].dir, size |-> n - 1, blocks |-> s]
        <5>1. c.inodes[d] = [dir |-> c.inodes[d].dir, size |-> c.inodes[d].size,
                             blocks |-> c.inodes[d].blocks]
          BY <1>1, <1>13, InodeType
        <5> HIDE DEF n, s
        <5> QED BY <5>1, <1>13
      <4> DEFINE t == SubSeq(s, 1, keep)
                 z == s[Len(s)]
      <4>4. /\ g = [inodes |-> g.inodes, ibits |-> c.ibits, dbits |-> c.dbits \ {z}, data |-> c.data]
            /\ g.inodes = [c.inodes EXCEPT ![d] = [c.inodes[d] EXCEPT !.blocks = Front(c.inodes[d].blocks)]]
        <5> HIDE DEF s, z
        <5> QED BY <3>1, <4>1 DEF z
      <4>5. [c.inodes[d] EXCEPT !.blocks = t] = [dir |-> c.inodes[d].dir, size |-> n - 1, blocks |-> t]
        <5> HIDE DEF s, n, t
        <5> QED BY <4>3
      <4> HIDE DEF s, n, keep
      <4> QED BY <4>2, <4>4, <4>5, <3>3 DEF Resized
    <3>5. /\ g \in DiskType /\ Owned(g) /\ Len(g.inodes[d].blocks) = keep
          /\ \A m \in Room(g, d) : m \in Room(c, d) /\ CellAt(g, d, m) = CellAt(c, d, m)
      <4>1. Resized(c, g, d, SubSeq(c.inodes[d].blocks, 1, keep), n - 1, Kept(c, d, keep))
            /\ keep \in 0 .. Len(c.inodes[d].blocks)
        <5> HIDE DEF s, n, keep
        <5> QED BY <3>2, <3>4, <1>13 DEF used
      <4> HIDE DEF n, keep
      <4> QED BY <4>1, <1>3, <1>12, <1>13, DroppedLemma
    <3>6. ResizedBy(c, g, d, SubSeq(s, 1, keep), n - 1, Kept(c, d, keep))
      <4>1. SubSeq(s, 1, keep) \in Seq(Block)
        <5>1. \A a \in 1 .. keep : s[a] \in Block
          <6> HIDE DEF s, keep
          <6> QED BY <1>2, <3>2, ElementOfSeq DEF used
        <5> HIDE DEF s, keep
        <5> QED BY <5>1, <1>2, <1>6, SubSeqProperties
      <4>2. Kept(c, d, keep) \in SUBSET Block
        BY <1>1, <1>13 DEF Kept
      <4> DEFINE t == SubSeq(s, 1, keep)
      <4> HIDE DEF n, keep, t
      <4> QED BY <4>1, <4>2, <3>4, <1>3, <1>13, ResizedFields DEF t
    <3> HIDE DEF n, keep, s
    <3> QED BY <3>5, <3>6, <1>13 DEF ResizedBy
  <2> QED BY <2>1, <2>2
<1>15. ASSUME NEW m \in 0 .. (n - 2) PROVE CellAt(g, d, m) = CellAt(f, d, IF m < k THEN m ELSE m + 1)
  <2>1. m \in Room(g, d)
    <3>1. Fits(g.inodes[d].dir, g.inodes[d].size, Len(g.inodes[d].blocks))
      BY <1>6, <1>14
    <3>2. m \in 0 .. (g.inodes[d].size - 1)
      <4> HIDE DEF n
      <4> QED BY <1>3, <1>14
    <3> QED BY <3>1, <3>2, <1>1, <1>14, SizeInRoom
  <2>2. m \in Room(f, d)
    <3>1. m \in 0 .. (n - 1)
      <4> HIDE DEF n
      <4> QED BY <1>3
    <3> QED BY <3>1, <1>5
  <2>3. CellAt(g, d, m) = CellAt(e, d, m)
    BY <2>1, <1>12, <1>14
  <2> HIDE DEF n
  <2>4. CASE m < k
    BY <2>2, <2>3, <2>4, <1>3, <1>10
  <2>5. CASE ~(m < k)
    <3>1. m \in k .. ((k + Len(sq)) - 1) /\ m - k + 1 \in 1 .. (n - 1 - k) /\ k + (m - k + 1) = m + 1
      BY <2>5, <1>3, <1>9
    <3>2. CellAt(e, d, m) = sq[m - k + 1]
      BY <2>2, <3>1, <1>10
    <3> QED BY <2>3, <2>5, <3>1, <3>2, <1>9
  <2> QED BY <2>4, <2>5
<1>16. OnlyThat(f, g, d)
  <2>1. ASSUME NEW j \in f.ibits \ {d}, NEW m \in 0 .. (f.inodes[j].size - 1)
        PROVE  CellAt(g, j, m) = CellAt(f, j, m)
    BY <1>5, <1>10, <1>14
  <2> QED BY <2>1, <1>2, <1>14 DEF OnlyThat
<1>17. Whole(g, d)
  <2>1. Kind(g, d) = Name \X Ino
    BY <1>14 DEF Kind
  <2>2. ASSUME NEW m \in 0 .. ((n - 1) - 1) PROVE CellAt(g, d, m) \in Name \X Ino
    <3>1. m \in 0 .. (n - 2) /\ (IF m < k THEN m ELSE m + 1) \in 0 .. (n - 1)
      <4> HIDE DEF n
      <4> QED BY <1>3
    <3> HIDE DEF n
    <3> QED BY <3>1, <1>8, <1>15
  <2> HIDE DEF n, keep
  <2>3. Holds(g, d, n - 1)
    BY <2>1, <2>2 DEF Holds
  <2>4. Fits(g.inodes[d].dir, g.inodes[d].size, Len(g.inodes[d].blocks))
    BY <1>6, <1>14
  <2> QED BY <2>3, <2>4, <1>14 DEF Whole
<1>18. Good(g)
  BY <1>16, <1>17, GoodLemma
<1> QED BY <1>14, <1>15, <1>16, <1>18 DEF Removed


\* The entries that are left name what they did, and none the inode taken out.
LEMMA RemoveNames ==
  ASSUME NEW f, Good(f), NEW d, NEW k, Entry(f, d, k),
         NEW S, NamedAs(f, S), NEW g, Removed(f, g, d, k)
  PROVE  NamedAs(g, S \ {CellAt(f, d, k)[2]})
<1> DEFINE size == f.inodes[d].size
           src(c, n) == IF c = d /\ ~(n < k) THEN n + 1 ELSE n
           ino == CellAt(f, d, k)[2]
<1>1. d \in f.ibits /\ f.inodes[d].dir = TRUE /\ k \in 0 .. (size - 1)
  BY DEF Entry
<1>2. size \in Nat
  <2>1. f \in DiskType /\ d \in Ino
    BY <1>1, TypeFields DEF Good
  <2> QED BY <2>1, InodeType
<1>3. /\ g.ibits = f.ibits /\ g.inodes[d].dir = f.inodes[d].dir /\ g.inodes[d].size = size - 1
      /\ \A j \in f.ibits \ {d} : g.inodes[j] = f.inodes[j]
      /\ \A j \in f.ibits \ {d} : \A m \in 0 .. (f.inodes[j].size - 1) : CellAt(g, j, m) = CellAt(f, j, m)
      /\ \A m \in 0 .. (size - 2) : CellAt(g, d, m) = CellAt(f, d, IF m < k THEN m ELSE m + 1)
  BY DEF Removed, OnlyThat
<1> HIDE DEF ino
<1>4. \A c, n : c # d => (Entry(g, c, n) <=> Entry(f, c, n)) /\ src(c, n) = n
  BY <1>3 DEF Entry
<1>5. /\ \A n : Entry(f, d, n) <=> n \in 0 .. (size - 1)
      /\ \A n : Entry(g, d, n) <=> n \in 0 .. ((size - 1) - 1)
  <2>1. \A n : Entry(f, d, n) <=> n \in 0 .. (size - 1)
    BY <1>1 DEF Entry
  <2> HIDE DEF size
  <2>2. \A n : Entry(g, d, n) <=> n \in 0 .. ((size - 1) - 1)
    BY <1>1, <1>3 DEF Entry
  <2> QED BY <2>1, <2>2
<1> HIDE DEF size
<1>6. ASSUME NEW c, NEW n, Entry(g, c, n)
      PROVE  Entry(f, c, src(c, n)) /\ CellAt(g, c, n) = CellAt(f, c, src(c, n))
             /\ (c = d => src(c, n) # k)
  <2>1. CASE c # d
    <3>1. Entry(f, c, n) /\ src(c, n) = n
      BY <2>1, <1>4, <1>6
    <3>2. CellAt(g, c, n) = CellAt(f, c, n)
      BY <2>1, <3>1, <1>3 DEF Entry
    <3> QED BY <2>1, <3>1, <3>2
  <2>2. CASE c = d
    <3>1. n \in 0 .. (size - 2)
      BY <2>2, <1>2, <1>5, <1>6
    <3>2. src(c, n) = (IF n < k THEN n ELSE n + 1) /\ src(c, n) \in 0 .. (size - 1) /\ src(c, n) # k
      BY <2>2, <3>1, <1>1, <1>2
    <3>3. CellAt(g, d, n) = CellAt(f, d, src(c, n))
      BY <3>1, <3>2, <1>3
    <3> QED BY <2>2, <3>2, <3>3, <1>5
  <2> QED BY <2>1, <2>2
<1>7. ASSUME NEW c, NEW n, NEW m, Entry(g, c, n), Entry(g, c, m), src(c, n) = src(c, m)
      PROVE  n = m
  <2>1. CASE c # d
    BY <2>1, <1>7
  <2>2. CASE c = d
    BY <2>2, <1>1, <1>2, <1>5, <1>7
  <2> QED BY <2>1, <2>2
<1>8. ASSUME NEW c, NEW n, Entry(f, c, n), ~(c = d /\ n = k)
      PROVE  \E m : Entry(g, c, m) /\ src(c, m) = n
  <2>1. CASE c # d
    BY <2>1, <1>4, <1>8
  <2>2. CASE c = d
    <3>1. n \in 0 .. (size - 1) /\ n # k
      BY <2>2, <1>5, <1>8
    <3>2. CASE n < k
      <4>1. n \in 0 .. ((size - 1) - 1) /\ src(c, n) = n
        BY <2>2, <3>1, <3>2, <1>1, <1>2
      <4> QED BY <4>1, <2>2, <1>5
    <3>3. CASE ~(n < k)
      <4>1. n - 1 \in 0 .. ((size - 1) - 1) /\ src(c, n - 1) = n
        BY <2>2, <3>1, <3>3, <1>1, <1>2
      <4> QED BY <4>1, <2>2, <1>5
    <3> QED BY <3>2, <3>3
  <2> QED BY <2>1, <2>2
<1> HIDE DEF src
<1>9. /\ Root \in f.ibits /\ f.inodes[Root].dir = TRUE
      /\ \A c, n : Entry(f, c, n) => CellAt(f, c, n)[2] \in S
      /\ \A c, n, b, m : Entry(f, c, n) /\ Entry(f, b, m) /\ CellAt(f, c, n)[2] = CellAt(f, b, m)[2]
                       => c = b /\ n = m
      /\ \A j \in S : \E c, n : Entry(f, c, n) /\ CellAt(f, c, n)[2] = j
  BY DEF NamedAs
<1>10. Root \in g.ibits /\ g.inodes[Root].dir = TRUE
  BY <1>3, <1>9
<1>11. ASSUME NEW c, NEW n, Entry(g, c, n) PROVE CellAt(g, c, n)[2] \in S \ {ino}
  <2>1. Entry(f, c, src(c, n)) /\ CellAt(g, c, n) = CellAt(f, c, src(c, n)) /\ (c = d => src(c, n) # k)
    BY <1>6, <1>11
  <2>2. CellAt(f, c, src(c, n))[2] \in S
    BY <2>1, <1>9
  <2>3. CellAt(f, c, src(c, n))[2] # ino
    BY <2>1, <1>9 DEF ino
  <2> QED BY <2>1, <2>2, <2>3
<1>12. ASSUME NEW c, NEW n, NEW b, NEW m, Entry(g, c, n), Entry(g, b, m),
              CellAt(g, c, n)[2] = CellAt(g, b, m)[2]
       PROVE  c = b /\ n = m
  <2>1. c = b /\ src(c, n) = src(b, m)
    BY <1>6, <1>9, <1>12
  <2> QED BY <2>1, <1>7, <1>12
<1>13. ASSUME NEW j \in S \ {ino} PROVE \E c, n : Entry(g, c, n) /\ CellAt(g, c, n)[2] = j
  <2>1. PICK c, n : Entry(f, c, n) /\ CellAt(f, c, n)[2] = j
    BY <1>9
  <2>2. ~(c = d /\ n = k)
    BY <2>1 DEF ino
  <2>3. PICK m : Entry(g, c, m) /\ src(c, m) = n
    BY <2>1, <2>2, <1>8
  <2> QED BY <2>1, <2>3, <1>6
<1>14. NamedAs(g, S \ {ino})
  BY <1>10, <1>11, <1>12, <1>13 DEF NamedAs
<1> QED BY <1>14 DEF ino

\* An inode that has no blocks and no entries is given back.
LEMMA FreedLemma ==
  ASSUME NEW f, Good(f), NEW S, NamedAs(f, S), NEW i \in f.ibits, i # Root,
         f.inodes[i].size = 0, NEW g, g = [f EXCEPT !.ibits = @ \ {i}]
  PROVE  /\ Good(g) /\ NamedAs(g, S) /\ g.ibits = f.ibits \ {i}
         /\ g.inodes = f.inodes /\ \A j, n : CellAt(g, j, n) = CellAt(f, j, n)
<1>1. f \in DiskType /\ Owned(f) /\ \A j \in f.ibits : Whole(f, j)
  BY DEF Good
<1>2. /\ f = [inodes |-> f.inodes, ibits |-> f.ibits, dbits |-> f.dbits, data |-> f.data]
      /\ f.inodes \in [Ino -> Inode]
      /\ f.ibits \in SUBSET Ino /\ f.dbits \in SUBSET Block
      /\ f.data \in [Block -> [0..(BlockLen - 1) -> Value]]
  BY <1>1, TypeFields
<1>3. g = [inodes |-> f.inodes, ibits |-> f.ibits \ {i}, dbits |-> f.dbits, data |-> f.data]
  BY <1>2
<1>4. /\ g.inodes = f.inodes /\ g.ibits = f.ibits \ {i} /\ g.dbits = f.dbits /\ g.data = f.data
      /\ g = [inodes |-> g.inodes, ibits |-> g.ibits, dbits |-> g.dbits, data |-> g.data]
  BY <1>3
<1>5. g \in DiskType
  <2>1. g.ibits \in SUBSET Ino
    BY <1>2, <1>4
  <2> QED BY <2>1, <1>2, <1>4, TypeFields
<1>6. DOMAIN f.inodes[i].blocks = {}
  <2> DEFINE used == Len(f.inodes[i].blocks)
  <2>1. used \in Nat /\ DOMAIN f.inodes[i].blocks = 1 .. used /\ f.inodes[i].dir \in BOOLEAN
    BY <1>1, <1>2, InodeType
  <2>2. Fits(f.inodes[i].dir, 0, used)
    BY <1>1 DEF Whole
  <2> HIDE DEF used
  <2>3. used * BlockLen < 0 + BlockLen
    BY <2>2 DEF Fits
  <2>4. used < 1
    <3>1. BlockLen \in Nat /\ 1 * BlockLen = BlockLen /\ used * BlockLen \in Nat
      BY <2>1, Disk, Times
    <3>2. used * BlockLen < 1 * BlockLen
      BY <2>3, <3>1
    <3> QED BY <3>2, <2>1, Times
  <2> QED BY <2>1, <2>4
<1>7. Owned(g)
  BY <1>1, <1>4, <1>6 DEF Owned
<1>8. \A j, n : CellAt(g, j, n) = CellAt(f, j, n)
  BY <1>4 DEF CellAt, BlockAt
<1>9. \A j \in g.ibits : Whole(g, j)
  <2>1. ASSUME NEW j \in g.ibits PROVE Whole(g, j)
    <3>1. Whole(f, j) /\ g.inodes[j] = f.inodes[j] /\ Kind(g, j) = Kind(f, j)
      BY <1>1, <1>4 DEF Kind
    <3> QED BY <3>1, <1>8 DEF Whole, Holds
  <2> QED BY <2>1
<1>10. \A d, n : Entry(g, d, n) <=> Entry(f, d, n)
  <2>1. \A n : n \notin 0 .. (f.inodes[i].size - 1)
    OBVIOUS
  <2> QED BY <2>1, <1>4 DEF Entry
<1>11. Root \in g.ibits /\ g.inodes[Root].dir = TRUE
  BY <1>4 DEF NamedAs
<1>12. NamedAs(g, S)
  BY <1>8, <1>10, <1>11, NamesKept
<1> QED BY <1>4, <1>5, <1>7, <1>8, <1>9, <1>12 DEF Good


-----------------------------------------------------------------------------
(* Paths.                                                                   *)

\* What find_inode() has found after n parts of a path.
Walks(f, path, w, k) ==
  w = [n \in 0 .. k |-> IF n = 0 THEN Root ELSE FindInDir(f)[w[n - 1]][path[n]]]

\* The walk of a path of any length exists: if it did not, a shortest one would not.
LEMMA WalkLemma ==
  ASSUME NEW f, NEW path, NEW len \in Nat
  PROVE  \E w : Walks(f, path, w, len)
<1> DEFINE Gap == {k \in 0 .. len : ~\E w : Walks(f, path, w, k)}
<1>1. SUFFICES ASSUME Gap # {} PROVE FALSE
  <2>1. len \in 0 .. len
    OBVIOUS
  <2> QED BY <2>1
<1>2. Gap \in SUBSET Nat /\ IsFiniteSet(Gap)
  <2>1. IsFiniteSet(0 .. len)
    BY FS_Interval
  <2> QED BY <2>1, FS_Subset
<1> DEFINE k == Least(Gap)
<1>3. k \in Gap /\ \A y \in Gap : k <= y
  <2> HIDE DEF Gap
  <2> QED BY <1>1, <1>2, LeastLemma
<1> HIDE DEF k
<1>4. k \in 0 .. len /\ ~\E w : Walks(f, path, w, k)
  BY <1>3
<1>5. CASE k = 0
  <2> DEFINE w == [n \in 0 .. 0 |-> Root]
  <2>1. w = [n \in 0 .. 0 |-> IF n = 0 THEN Root ELSE FindInDir(f)[w[n - 1]][path[n]]]
    OBVIOUS
  <2> HIDE DEF w
  <2>2. Walks(f, path, w, 0)
    BY <2>1 DEF Walks
  <2> QED BY <2>2, <1>4, <1>5
<1>6. CASE k # 0
  <2>1. k - 1 \in 0 .. len /\ ~(k <= k - 1)
    BY <1>4, <1>6
  <2>2. PICK v : Walks(f, path, v, k - 1)
    BY <2>1, <1>3
  <2> DEFINE w == [n \in 0 .. k |-> IF n = 0 THEN Root ELSE FindInDir(f)[v[n - 1]][path[n]]]
  <2>3. \A n \in 0 .. (k - 1) : w[n] = v[n]
    <3>1. v = [n \in 0 .. (k - 1) |-> IF n = 0 THEN Root ELSE FindInDir(f)[v[n - 1]][path[n]]]
      BY <2>2 DEF Walks
    <3>2. 0 .. (k - 1) \subseteq 0 .. k
      BY <1>4
    <3> HIDE DEF Gap
    <3>3. \A n \in 0 .. (k - 1) : v[n] = IF n = 0 THEN Root ELSE FindInDir(f)[v[n - 1]][path[n]]
      BY <3>1
    <3> QED BY <3>2, <3>3
  <2>4. \A n \in 0 .. k : n # 0 => v[n - 1] = w[n - 1]
    <3>1. \A n \in 0 .. k : n # 0 => n - 1 \in 0 .. (k - 1)
      BY <1>4
    <3> HIDE DEF w
    <3> QED BY <3>1, <2>3
  <2>5. w = [n \in 0 .. k |-> IF n = 0 THEN Root ELSE FindInDir(f)[w[n - 1]][path[n]]]
    <3> DEFINE F(n) == IF n = 0 THEN Root ELSE FindInDir(f)[v[n - 1]][path[n]]
               G(n) == IF n = 0 THEN Root ELSE FindInDir(f)[w[n - 1]][path[n]]
    <3>1. w = [n \in 0 .. k |-> F(n)]
      OBVIOUS
    <3> HIDE DEF w
    <3>2. \A n \in 0 .. k : F(n) = G(n)
      BY <2>4
    <3> HIDE DEF F, G
    <3>3. w = [n \in 0 .. k |-> G(n)]
      BY <3>1, <3>2
    <3> QED BY <3>3 DEF G
  <2> HIDE DEF w
  <2>6. Walks(f, path, w, k)
    BY <2>5 DEF Walks
  <2> QED BY <2>6, <1>4
<1> QED BY <1>5, <1>6

\* Walks along the same parts pass the same inodes.
LEMMA SameWalk ==
  ASSUME NEW f, NEW path, NEW len \in Nat, NEW other, NEW more \in Nat, len <= more,
         \A n \in 1 .. len : other[n] = path[n],
         NEW w, Walks(f, path, w, len), NEW v, Walks(f, other, v, more)
  PROVE  \A n \in 0 .. len : w[n] = v[n]
<1> DEFINE Gap == {k \in 0 .. len : w[k] # v[k]}
<1>1. SUFFICES ASSUME Gap # {} PROVE FALSE
  OBVIOUS
<1>2. Gap \in SUBSET Nat /\ IsFiniteSet(Gap)
  <2>1. IsFiniteSet(0 .. len)
    BY FS_Interval
  <2> QED BY <2>1, FS_Subset
<1> DEFINE k == Least(Gap)
<1>3. k \in Gap /\ \A y \in Gap : k <= y
  <2> HIDE DEF Gap
  <2> QED BY <1>1, <1>2, LeastLemma
<1> HIDE DEF k
<1>4. k \in 0 .. len /\ k \in 0 .. more /\ w[k] # v[k]
  BY <1>3
<1>5. /\ \A n \in 0 .. len : w[n] = IF n = 0 THEN Root ELSE FindInDir(f)[w[n - 1]][path[n]]
      /\ \A n \in 0 .. more : v[n] = IF n = 0 THEN Root ELSE FindInDir(f)[v[n - 1]][other[n]]
  <2>1. \A n \in 0 .. len : w[n] = IF n = 0 THEN Root ELSE FindInDir(f)[w[n - 1]][path[n]]
    <3> HIDE DEF Gap
    <3> QED BY DEF Walks
  <2>2. \A n \in 0 .. more : v[n] = IF n = 0 THEN Root ELSE FindInDir(f)[v[n - 1]][other[n]]
    <3> HIDE DEF Gap
    <3> QED BY DEF Walks
  <2> QED BY <2>1, <2>2
<1>6. CASE k = 0
  BY <1>4, <1>5, <1>6
<1>7. CASE k # 0
  <2>1. k - 1 \in 0 .. len /\ ~(k <= k - 1) /\ k \in 1 .. len
    BY <1>4, <1>7
  <2>2. w[k - 1] = v[k - 1]
    BY <2>1, <1>3
  <2> HIDE DEF Gap
  <2>3. other[k] = path[k]
    BY <2>1
  <2>4. /\ w[k] = FindInDir(f)[w[k - 1]][path[k]]
        /\ v[k] = FindInDir(f)[v[k - 1]][other[k]]
    BY <1>4, <1>5, <1>7
  <2> QED BY <2>2, <2>3, <2>4, <1>4
<1> QED BY <1>6, <1>7


LEMMA FindLemma ==
  ASSUME NEW f, NEW path, Len(path) \in Nat
  PROVE  \E w : Walks(f, path, w, Len(path)) /\ FindInode(f, path) = w[Len(path)]
<1> DEFINE walk == CHOOSE w : Walks(f, path, w, Len(path))
<1>1. Walks(f, path, walk, Len(path))
  <2>1. \E w : Walks(f, path, w, Len(path))
    BY WalkLemma
  <2> QED BY <2>1
<1>2. FindInode(f, path) = walk[Len(path)]
  BY DEF FindInode, Walks
<1> HIDE DEF walk
<1> QED BY <1>1, <1>2

\* A path and its parts.
LEMMA PathLemma ==
  ASSUME NEW path \in Paths
  PROVE  /\ Len(path) \in Nat /\ \A n \in 1 .. Len(path) : path[n] \in Name
         /\ path \in Seq(Name)
         /\ path # <<>> => /\ Parent(path) \in Paths /\ Len(path) # 0
                           /\ Len(Parent(path)) = Len(path) - 1
                           /\ \A n \in 1 .. (Len(path) - 1) : Parent(path)[n] = path[n]
                           /\ Filename(path) = path[Len(path)] /\ Filename(path) \in Name
<1>1. PICK k \in 0 .. MaxLevel : path \in [1 .. k -> Name]
  BY DEF Paths
<1>2. k \in Nat /\ MaxLevel \in Nat /\ k <= MaxLevel
  BY Disk
<1>3. path \in Seq(Name) /\ Len(path) = k
  BY <1>1, <1>2
<1>4. \A n \in 1 .. Len(path) : path[n] \in Name
  BY <1>1, <1>3
<1>5. ASSUME path # <<>>
      PROVE  /\ Parent(path) \in Paths /\ Len(path) # 0
             /\ Len(Parent(path)) = Len(path) - 1
             /\ \A n \in 1 .. (Len(path) - 1) : Parent(path)[n] = path[n]
             /\ Filename(path) = path[Len(path)] /\ Filename(path) \in Name
  <2>1. k # 0
    BY <1>5, <1>3, EmptySeq
  <2>2. Parent(path) = SubSeq(path, 1, k - 1)
    BY <1>3 DEF Parent, Front
  <2>3. \A n \in 1 .. (k - 1) : path[n] \in Name
    BY <1>2, <1>3, <1>4
  <2>4. /\ SubSeq(path, 1, k - 1) \in Seq(Name)
        /\ Len(SubSeq(path, 1, k - 1)) = IF 1 <= k - 1 THEN (k - 1) - 1 + 1 ELSE 0
        /\ \A n \in 1 .. ((k - 1) - 1 + 1) : SubSeq(path, 1, k - 1)[n] = path[1 + n - 1]
    BY <2>1, <2>3, <1>2, <1>3, SubSeqProperties
  <2>5. Len(Parent(path)) = k - 1 /\ Parent(path) \in Seq(Name)
    BY <2>1, <2>2, <2>4, <1>2
  <2>6. \A n \in 1 .. (k - 1) : Parent(path)[n] = path[n]
    <3>1. (k - 1) - 1 + 1 = k - 1 /\ \A n \in 1 .. (k - 1) : 1 + n - 1 = n
      BY <1>2
    <3> QED BY <3>1, <2>2, <2>4
  <2>7. Parent(path) \in Paths
    <3>1. Parent(path) \in [1 .. (k - 1) -> Name]
      BY <2>5, LenProperties, SeqDef
    <3>2. k - 1 \in 0 .. MaxLevel
      BY <2>1, <1>2
    <3> QED BY <3>1, <3>2 DEF Paths
  <2>8. Filename(path) = path[k] /\ path[k] \in Name
    BY <2>1, <1>2, <1>3, <1>4 DEF Filename, Last
  <2> QED BY <2>1, <2>5, <2>6, <2>7, <2>8, <1>3
<1> QED BY <1>2, <1>3, <1>4, <1>5

\* find_inode() of a path looks for its last part where it finds the others.
LEMMA StepLemma ==
  ASSUME NEW f, NEW path \in Paths, path # <<>>
  PROVE  FindInode(f, path) = FindInDir(f)[FindInode(f, Parent(path))][Filename(path)]
<1> DEFINE len == Len(path)
           up == Parent(path)
<1>1. /\ len \in Nat /\ len # 0 /\ Len(up) = len - 1 /\ Filename(path) = path[len]
      /\ \A n \in 1 .. (len - 1) : up[n] = path[n]
  BY PathLemma
<1>2. len - 1 \in Nat /\ len - 1 <= len /\ len \in 0 .. len /\ len - 1 \in 0 .. (len - 1)
  <2> HIDE DEF len
  <2> QED BY <1>1
<1>3. PICK w : Walks(f, path, w, len) /\ FindInode(f, path) = w[len]
  BY <1>1, FindLemma
<1>4. PICK v : Walks(f, up, v, len - 1) /\ FindInode(f, up) = v[len - 1]
  BY <1>1, <1>2, FindLemma
<1> HIDE DEF len, up
<1>5. w[len - 1] = v[len - 1]
  <2>1. \A n \in 1 .. (len - 1) : path[n] = up[n]
    BY <1>1
  <2>2. \A n \in 0 .. (len - 1) : v[n] = w[n]
    BY <2>1, <1>2, <1>1, <1>3, <1>4, SameWalk
  <2> QED BY <2>2, <1>2
<1>6. w[len] = FindInDir(f)[w[len - 1]][path[len]]
  BY <1>1, <1>2, <1>3 DEF Walks
<1> QED BY <1>1, <1>3, <1>4, <1>5, <1>6 DEF up

LEMMA RootPath == ASSUME NEW f, NEW path \in Paths, path = <<>> PROVE FindInode(f, path) = Root
<1>1. Len(path) = 0
  BY EmptySeq
<1>2. PICK w : Walks(f, path, w, 0) /\ FindInode(f, path) = w[0]
  BY <1>1, FindLemma
<1>3. w[0] = Root
  BY <1>2 DEF Walks
<1> QED BY <1>2, <1>3

\* What a directory has under a name, when it is an inode in use.
LEMMA FindInDirLemma ==
  ASSUME NEW f, Good(f), NEW S \in SUBSET f.ibits, NamedAs(f, S),
         NEW d \in f.ibits \cup {NoIno}, NEW name \in Name
  PROVE  /\ FindInDir(f)[d][name] \in f.ibits \cup {NoIno}
         /\ FindInDir(f)[d][name] # NoIno => d # NoIno /\ f.inodes[d].dir = TRUE
<1> DEFINE at == {i \in 0..(f.inodes[d].size - 1) : CellAt(f, d, i)[1] = name}
<1>1. f \in DiskType /\ f.ibits \subseteq Ino
  BY TypeFields DEF Good
<1>2. FindInDir(f)[d][name] = IF d = NoIno \/ ~f.inodes[d].dir THEN NoIno
                              ELSE IF at = {} THEN NoIno ELSE CellAt(f, d, Least(at))[2]
  <2>1. d \in Ino \cup {NoIno}
    BY <1>1
  <2> QED BY <2>1 DEF FindInDir
<1>3. CASE d = NoIno \/ ~f.inodes[d].dir
  BY <1>2, <1>3
<1>4. CASE ~(d = NoIno \/ ~f.inodes[d].dir)
  <2>1. d \in f.ibits /\ f.inodes[d].dir = TRUE /\ f.inodes[d].size \in Nat
    BY <1>1, <1>4, InodeType
  <2>2. CASE at = {}
    BY <2>1, <2>2, <1>2, <1>4
  <2>3. CASE at # {}
    <3>1. at \in SUBSET (0 .. (f.inodes[d].size - 1)) /\ IsFiniteSet(0 .. (f.inodes[d].size - 1))
          /\ 0 .. (f.inodes[d].size - 1) \subseteq Nat
      <4> DEFINE p == f.inodes[d].size - 1
      <4>1. p \in Int /\ 0 \in Int /\ 0 .. p \subseteq Nat
        BY <2>1
      <4> HIDE DEF p
      <4>2. IsFiniteSet(0 .. p)
        BY <4>1, FS_Interval
      <4>3. 0 .. p \subseteq Nat /\ at \in SUBSET (0 .. p)
        BY <4>1 DEF p
      <4> QED BY <4>2, <4>3 DEF p
    <3>2. at \in SUBSET Nat /\ IsFiniteSet(at)
      BY <3>1, FS_Subset
    <3> HIDE DEF at
    <3>3. Least(at) \in 0 .. (f.inodes[d].size - 1)
      BY <2>3, <3>1, <3>2, LeastLemma
    <3>4. CellAt(f, d, Least(at))[2] \in S
      BY <3>3, <2>1 DEF NamedAs, Entry
    <3> QED BY <3>4, <2>1, <2>3, <1>2, <1>4
  <2> QED BY <2>2, <2>3
<1> QED BY <1>3, <1>4

\* What find_inode() finds is in use.
LEMMA FoundLemma ==
  ASSUME NEW f, Good(f), NEW S \in SUBSET f.ibits, NamedAs(f, S), NEW path \in Paths
  PROVE  FindInode(f, path) \in f.ibits \cup {NoIno}
<1> DEFINE len == Len(path)
<1>1. len \in Nat /\ \A n \in 1 .. len : path[n] \in Name
  BY PathLemma
<1>2. PICK w : Walks(f, path, w, len) /\ FindInode(f, path) = w[len]
  BY <1>1, FindLemma
<1> HIDE DEF len
<1> DEFINE Gap == {k \in 0 .. len : w[k] \notin f.ibits \cup {NoIno}}
<1>3. Gap = {}
  <2>1. SUFFICES ASSUME Gap # {} PROVE FALSE
    OBVIOUS
  <2>2. Gap \in SUBSET Nat /\ IsFiniteSet(Gap)
    <3>1. IsFiniteSet(0 .. len)
      BY <1>1, FS_Interval
    <3> QED BY <3>1, <1>1, FS_Subset
  <2> DEFINE k == Least(Gap)
  <2>3. k \in Gap /\ \A y \in Gap : k <= y
    <3> HIDE DEF Gap
    <3> QED BY <2>1, <2>2, LeastLemma
  <2> HIDE DEF k
  <2>4. k \in 0 .. len /\ w[k] \notin f.ibits \cup {NoIno}
    BY <2>3
  <2>5. w[k] = IF k = 0 THEN Root ELSE FindInDir(f)[w[k - 1]][path[k]]
    <3> HIDE DEF Gap
    <3> QED BY <2>4, <1>2 DEF Walks
  <2>6. CASE k = 0
    BY <2>4, <2>5, <2>6 DEF NamedAs
  <2>7. CASE k # 0
    <3>1. k - 1 \in 0 .. len /\ ~(k <= k - 1) /\ k \in 1 .. len
      BY <2>4, <2>7, <1>1
    <3>2. w[k - 1] \in f.ibits \cup {NoIno}
      BY <3>1, <2>3
    <3>3. path[k] \in Name
      BY <3>1, <1>1
    <3> HIDE DEF Gap
    <3>4. FindInDir(f)[w[k - 1]][path[k]] \in f.ibits \cup {NoIno}
      BY <3>2, <3>3, FindInDirLemma
    <3> QED BY <3>4, <2>4, <2>5, <2>7
  <2> QED BY <2>6, <2>7
<1>4. len \in 0 .. len
  BY <1>1
<1> QED BY <1>2, <1>3, <1>4


-----------------------------------------------------------------------------
(* The handlers.                                                            *)

\* The disk of a file system that is mounted.
InOrder(f) == Good(f) /\ NamedAs(f, f.ibits \ {Root})

LEMMA InOrderFinds ==
  ASSUME NEW f, InOrder(f), NEW path \in Paths
  PROVE  FindInode(f, path) \in f.ibits \cup {NoIno}
<1>1. f.ibits \ {Root} \in SUBSET f.ibits
  OBVIOUS
<1> QED BY <1>1, FoundLemma DEF InOrder

\* Inode j and what it holds are the same in g.
SameInode(f, g, j) ==
  /\ g.inodes[j] = f.inodes[j]
  /\ \A m \in 0 .. (f.inodes[j].size - 1) : CellAt(g, j, m) = CellAt(f, j, m)

\* Directory d has an entry x more, of an inode that was not in use, and nothing
\* else is different.
Linked(f, g, d, x, dir) ==
  /\ x[2] \in Ino \ f.ibits /\ g.ibits = f.ibits \cup {x[2]}
  /\ g.inodes[x[2]].dir = dir /\ g.inodes[x[2]].size = 0
  /\ g.inodes[d].dir = f.inodes[d].dir /\ g.inodes[d].size = f.inodes[d].size + 1
  /\ \A m \in 0 .. (f.inodes[d].size - 1) : CellAt(g, d, m) = CellAt(f, d, m)
  /\ CellAt(g, d, f.inodes[d].size) = x
  /\ \A j \in f.ibits \ {d} : SameInode(f, g, j)

\* Entry k of directory d is gone, and the inode i that it named.
Unlinked(f, g, d, k, i) ==
  /\ g.ibits = f.ibits \ {i}
  /\ g.inodes[d].dir = f.inodes[d].dir /\ g.inodes[d].size = f.inodes[d].size - 1
  /\ \A m \in 0 .. (f.inodes[d].size - 2) :
       CellAt(g, d, m) = CellAt(f, d, IF m < k THEN m ELSE m + 1)
  /\ \A j \in f.ibits \ {d, i} : SameInode(f, g, j)

\* fisopfs_create() and fisopfs_mkdir(), once they have checked.
LEMMA AddLemma ==
  ASSUME NEW f, InOrder(f), NEW path \in Paths, path # <<>>, CanCreate(f, path),
         NEW dir \in BOOLEAN,
         NEW g, g = InsertDentry(InitInode(f, dir), FindInode(f, Parent(path)),
                                 GetFreeBit(f.ibits, Ino), Filename(path))
  PROVE  /\ InOrder(g)
         /\ FindInode(f, Parent(path)) \in f.ibits
         /\ f.inodes[FindInode(f, Parent(path))].dir = TRUE
         /\ Linked(f, g, FindInode(f, Parent(path)),
                   <<Filename(path), GetFreeBit(f.ibits, Ino)>>, dir)
<1> DEFINE d == FindInode(f, Parent(path))
           i == GetFreeBit(f.ibits, Ino)
           h == InitInode(f, dir)
           name == Filename(path)
           S == f.ibits \ {Root}
<1>1. Good(f) /\ NamedAs(f, S) /\ f \in DiskType
  BY DEF InOrder, Good
<1>2. Parent(path) \in Paths /\ name \in Name
  BY PathLemma
<1>3. d \in f.ibits /\ f.inodes[d].dir /\ f.inodes[d].size < MaxSize
      /\ HasFree(f.dbits, Block) /\ HasFree(f.ibits, Ino)
  <2>1. d \in f.ibits \cup {NoIno}
    BY <1>2, InOrderFinds
  <2> QED BY <2>1 DEF CanCreate
<1>4. i \in Ino \ f.ibits /\ Taken(f, h, i, dir)
  BY <1>1, <1>3, InitInodeLemma
<1>5. g = InsertDentry(h, d, i, name)
  OBVIOUS
<1> HIDE DEF d, i, h, name, S
<1>6. /\ Good(h) /\ h.ibits = f.ibits \cup {i} /\ h.dbits = f.dbits
      /\ \A j \in f.ibits : h.inodes[j] = f.inodes[j]
      /\ h.inodes[i].dir = dir /\ h.inodes[i].size = 0
      /\ \A j \in f.ibits : \A n : CellAt(h, j, n) = CellAt(f, j, n)
      /\ \A c, n : Entry(h, c, n) <=> Entry(f, c, n)
      /\ \A c, n : Entry(f, c, n) => CellAt(h, c, n) = CellAt(f, c, n)
  BY <1>1, <1>4, TakenGood
<1>7. NamedAs(h, S)
  <2>1. Root \in f.ibits /\ f.inodes[Root].dir = TRUE
    BY <1>1 DEF NamedAs
  <2>2. Root \in h.ibits /\ h.inodes[Root].dir = TRUE
    BY <2>1, <1>6
  <2> QED BY <2>2, <1>1, <1>6, NamesKept
<1>8. d \in h.ibits /\ h.inodes[d].dir /\ h.inodes[d].size < MaxSize /\ HasFree(h.dbits, Block)
  BY <1>3, <1>6
<1>9. Inserted(h, g, d, <<name, i>>)
  BY <1>2, <1>4, <1>5, <1>6, <1>8, InsertLemma
<1>12. h.inodes[d].dir = TRUE /\ f.inodes[d].dir = TRUE /\ f.inodes[d].size \in Nat
  <2>1. h.inodes[d].dir \in BOOLEAN /\ h.inodes[d].size \in Nat
    <3>1. h \in DiskType /\ d \in Ino
      BY <1>6, <1>8, TypeFields DEF Good
    <3> QED BY <3>1, InodeType
  <2> QED BY <2>1, <1>3, <1>6, <1>8
<1>10. NamedAs(g, S \cup {i})
  <2>1. h.inodes[d].dir = TRUE
    BY <1>12
  <2>2. i \notin S
    BY <1>4 DEF S
  <2> QED BY <2>1, <2>2, <1>6, <1>7, <1>8, <1>9, InsertNames
<1>11. g.ibits \ {Root} = S \cup {i} /\ Good(g)
  <2>1. g.ibits = f.ibits \cup {i} /\ Good(g)
    BY <1>6, <1>9 DEF Inserted, OnlyThat
  <2>2. Root \in f.ibits
    BY <1>1 DEF NamedAs
  <2> QED BY <2>1, <2>2, <1>4 DEF S
<1>13. Linked(f, g, d, <<name, i>>, dir)
  <2>1. ASSUME NEW j \in f.ibits \ {d} PROVE SameInode(f, g, j)
    <3>1. /\ g.inodes[j] = h.inodes[j] /\ h.inodes[j] = f.inodes[j]
          /\ \A m \in 0 .. (h.inodes[j].size - 1) : CellAt(g, j, m) = CellAt(h, j, m)
          /\ \A m : CellAt(h, j, m) = CellAt(f, j, m)
      BY <1>6, <1>9 DEF Inserted, OnlyThat
    <3> QED BY <3>1 DEF SameInode
  <2>2. /\ g.ibits = f.ibits \cup {i} /\ d # i /\ h.inodes[d] = f.inodes[d]
        /\ g.inodes[i].dir = dir /\ g.inodes[i].size = 0
    <3>1. i \in h.ibits \ {d} /\ d # i
      BY <1>3, <1>4, <1>6
    <3> QED BY <3>1, <1>3, <1>6, <1>9 DEF Inserted, OnlyThat
  <2>3. /\ g.inodes[d].dir = f.inodes[d].dir /\ g.inodes[d].size = f.inodes[d].size + 1
        /\ \A m \in 0 .. (f.inodes[d].size - 1) : CellAt(g, d, m) = CellAt(f, d, m)
        /\ CellAt(g, d, f.inodes[d].size) = <<name, i>>
    BY <2>2, <1>3, <1>6, <1>9 DEF Inserted, OnlyThat
  <2> QED BY <2>1, <2>2, <2>3, <1>4 DEF Linked
<1> QED BY <1>3, <1>10, <1>11, <1>12, <1>13 DEF InOrder, d, i, name

\* write_file() and shrink_file() of a file.
LEMMA FileLemma ==
  ASSUME NEW f, InOrder(f), NEW i \in f.ibits, ~f.inodes[i].dir,
         NEW g, Good(g), OnlyThat(f, g, i)
  PROVE  InOrder(g)
<1>1. NamedAs(g, f.ibits \ {Root})
  BY FileNames DEF InOrder
<1>2. g.ibits = f.ibits
  BY DEF OnlyThat
<1> QED BY <1>1, <1>2 DEF InOrder

\* unlink_inode() of a file, or of a directory without entries.
LEMMA UnlinkLemma ==
  ASSUME NEW f, InOrder(f), NEW path \in Paths, NEW ino, ino = FindInode(f, path),
         ino # NoIno, ino # Root, f.inodes[ino].dir => f.inodes[ino].size = 0,
         NEW g, g = UnlinkInode(f, path, ino)
  PROVE  /\ InOrder(g)
         /\ \A d : d = FindInode(f, Parent(path)) =>
              /\ d \in f.ibits /\ f.inodes[d].dir = TRUE
              /\ (\E n : Entry(f, d, n) /\ CellAt(f, d, n) = <<Filename(path), ino>>) =>
                   \E k : /\ Entry(f, d, k) /\ CellAt(f, d, k) = <<Filename(path), ino>>
                          /\ ino # d /\ Unlinked(f, g, d, k, ino)
<1> DEFINE d == FindInode(f, Parent(path))
           x == <<Filename(path), ino>>
           at == {i \in 0..(f.inodes[d].size - 1) : CellAt(f, d, i) = x}
           k == Least(at)
           left == RemoveDentry(f, d, k)
           h == ShrinkFile(left, ino, 0)
           S == f.ibits \ {Root}
<1>1. Good(f) /\ NamedAs(f, S) /\ f \in DiskType /\ f.ibits \subseteq Ino /\ S \in SUBSET f.ibits
  BY TypeFields DEF InOrder, Good
<1>2. ino \in f.ibits
  BY InOrderFinds
<1>3. path # <<>>
  BY RootPath
<1>4. Parent(path) \in Paths /\ Filename(path) \in Name
  BY <1>3, PathLemma
<1>5. d \in f.ibits /\ f.inodes[d].dir = TRUE
  <2>1. d \in f.ibits \cup {NoIno}
    BY <1>4, InOrderFinds
  <2>2. FindInDir(f)[d][Filename(path)] # NoIno
    BY <1>3, StepLemma
  <2> HIDE DEF d, S
  <2> QED BY <2>1, <2>2, <1>1, <1>4, FindInDirLemma
<1>6. g = IF at = {} THEN f ELSE [h EXCEPT !.ibits = @ \ {ino}]
  BY DEF UnlinkInode
<1>7. CASE at = {}
  <2>1. ~\E n : Entry(f, d, n) /\ CellAt(f, d, n) = x
    BY <1>7 DEF Entry
  <2> HIDE DEF d, x, at
  <2> QED BY <2>1, <1>5, <1>6, <1>7 DEF d, x
<1>8. CASE at # {}
  <2>1. Entry(f, d, k) /\ CellAt(f, d, k)[2] = ino /\ CellAt(f, d, k) = x
    <3> DEFINE p == f.inodes[d].size - 1
    <3>1. p \in Int /\ 0 \in Int /\ 0 .. p \subseteq Nat
      <4>1. f.inodes[d].size \in Nat
        BY <1>1, <1>5, InodeType
      <4> QED BY <4>1
    <3>2. IsFiniteSet(0 .. p) /\ at \subseteq 0 .. p
      <4> HIDE DEF p
      <4>1. IsFiniteSet(0 .. p)
        BY <3>1, FS_Interval
      <4> QED BY <4>1 DEF p
    <3>3. k \in at
      <4>1. IsFiniteSet(at) /\ at \in SUBSET Nat
        <5> HIDE DEF at, p
        <5> QED BY <3>1, <3>2, FS_Subset
      <4> HIDE DEF at
      <4> QED BY <4>1, <1>8, LeastLemma
    <3> HIDE DEF k
    <3>4. k \in 0 .. p /\ CellAt(f, d, k) = x
      BY <3>3
    <3>5. x[2] = ino
      OBVIOUS
    <3> HIDE DEF x, d
    <3> QED BY <3>4, <3>5, <1>5 DEF Entry
  <2> HIDE DEF d, k, at, S, x
  <2>2. Removed(f, left, d, k)
    <3>1. k \in 0 .. (f.inodes[d].size - 1) /\ f.inodes[d].dir
      BY <2>1 DEF Entry
    <3> HIDE DEF left
    <3> QED BY <3>1, <1>1, <1>5, RemoveLemma DEF left
  <2>3. NamedAs(left, S \ {ino})
    <3> HIDE DEF left
    <3> QED BY <2>1, <2>2, <1>1, RemoveNames
  <2> HIDE DEF left
  <2>4. Good(left) /\ left.ibits = f.ibits /\ OnlyThat(f, left, d)
    BY <2>2 DEF Removed, OnlyThat
  <2>5. ino # d
    <3>1. f.inodes[d].size # 0
      <4>1. k \in 0 .. (f.inodes[d].size - 1)
        BY <2>1 DEF Entry
      <4> QED BY <4>1
    <3> QED BY <3>1, <1>5
  <2>6. left.inodes[ino] = f.inodes[ino] /\ ino \in left.ibits
    BY <2>4, <2>5, <1>2 DEF OnlyThat
  <2>7. /\ Good(h) /\ OnlyThat(left, h, ino)
        /\ left.inodes[ino].dir => h = left
        /\ ~left.inodes[ino].dir => h.inodes[ino].size <= 0
    BY <2>4, <2>6, ShrinkLemma
  <2> HIDE DEF h
  <2>8. NamedAs(h, S \ {ino})
    <3>1. CASE left.inodes[ino].dir
      BY <3>1, <2>3, <2>7
    <3>2. CASE ~left.inodes[ino].dir
      BY <3>2, <2>3, <2>6, <2>7, FileNames
    <3> QED BY <3>1, <3>2
  <2>9. h.inodes[ino].size = 0 /\ ino \in h.ibits /\ h.ibits = f.ibits
    <3>1. h.ibits = f.ibits /\ ino \in h.ibits /\ ino \in Ino
      BY <2>4, <2>6, <2>7, <1>1, <1>2 DEF OnlyThat
    <3>2. h.inodes[ino].size \in Nat
      BY <3>1, <2>7, InodeType DEF Good
    <3>3. CASE left.inodes[ino].dir
      BY <3>1, <3>3, <2>6, <2>7
    <3>4. CASE ~left.inodes[ino].dir
      BY <3>1, <3>2, <3>4, <2>7
    <3> QED BY <3>3, <3>4
  <2>10. g = [h EXCEPT !.ibits = @ \ {ino}]
    BY <1>6, <1>8
  <2>11. /\ Good(g) /\ NamedAs(g, S \ {ino}) /\ g.ibits = h.ibits \ {ino}
         /\ g.inodes = h.inodes /\ \A j, n : CellAt(g, j, n) = CellAt(h, j, n)
    BY <2>7, <2>8, <2>9, <2>10, FreedLemma
  <2>12. g.ibits \ {Root} = S \ {ino}
    BY <2>9, <2>11 DEF S
  <2>13. ASSUME NEW j \in f.ibits \ {d, ino} PROVE SameInode(f, g, j)
    <3>1. SameInode(f, left, j)
      BY <2>4 DEF OnlyThat, SameInode
    <3>2. SameInode(left, h, j)
      BY <2>4, <2>7 DEF OnlyThat, SameInode
    <3> QED BY <3>1, <3>2, <2>11 DEF SameInode
  <2>14. /\ h.inodes[d] = left.inodes[d]
         /\ \A m \in 0 .. (left.inodes[d].size - 1) : CellAt(h, d, m) = CellAt(left, d, m)
    BY <2>4, <2>5, <2>7, <1>5 DEF OnlyThat
  <2>15. /\ g.inodes[d].dir = f.inodes[d].dir /\ g.inodes[d].size = f.inodes[d].size - 1
         /\ \A m \in 0 .. (f.inodes[d].size - 2) :
              CellAt(g, d, m) = CellAt(f, d, IF m < k THEN m ELSE m + 1)
    <3>1. /\ left.inodes[d].dir = f.inodes[d].dir /\ left.inodes[d].size = f.inodes[d].size - 1
          /\ \A m \in 0 .. (f.inodes[d].size - 2) :
               CellAt(left, d, m) = CellAt(f, d, IF m < k THEN m ELSE m + 1)
      BY <2>2 DEF Removed, OnlyThat
    <3>2. 0 .. (f.inodes[d].size - 2) = 0 .. (left.inodes[d].size - 1)
      <4>1. f.inodes[d].size \in Nat
        BY <1>1, <1>5, InodeType
      <4> QED BY <4>1, <3>1
    <3> QED BY <3>1, <3>2, <2>11, <2>14
  <2>16. Unlinked(f, g, d, k, ino)
    BY <2>9, <2>11, <2>13, <2>15 DEF Unlinked
  <2> QED BY <2>1, <2>5, <2>11, <2>12, <2>16, <1>5 DEF InOrder, d, x
<1> QED BY <1>7, <1>8

\* A disk of zeroes, and the root that fisopfs_init() puts on it.
LEMMA ZeroedLemma == Good(Zeroed) /\ Zeroed.ibits = {}
<1>1. Zeroed.ibits = {} /\ Zeroed.dbits = {}
  BY DEF Zeroed
<1>2. Unused \in Inode
  <2>1. 0 \in 0..MaxSize /\ <<>> \in Seq(Block)
    BY Disk
  <2> QED BY <2>1 DEF Unused, Inode
<1>3. Zero \in Value
  BY DiskAssumption DEF Value
<1>4. Zeroed \in DiskType
  <2>1. /\ Zeroed.inodes = [i \in Ino |-> Unused]
        /\ Zeroed.data = [b \in Block |-> [c \in 0..(BlockLen - 1) |-> Zero]]
        /\ Zeroed = [inodes |-> Zeroed.inodes, ibits |-> Zeroed.ibits,
                     dbits |-> Zeroed.dbits, data |-> Zeroed.data]
    BY DEF Zeroed
  <2>2. Zeroed.inodes \in [Ino -> Inode]
    BY <2>1, <1>2
  <2>3. Zeroed.data \in [Block -> [0..(BlockLen - 1) -> Value]]
    BY <2>1, <1>3
  <2> QED BY <2>1, <2>2, <2>3, <1>1, TypeFields
<1>5. Owned(Zeroed)
  BY <1>1 DEF Owned
<1> QED BY <1>1, <1>4, <1>5 DEF Good

LEMMA MountLemma ==
  /\ InOrder(InitInode(Zeroed, TRUE))
  /\ \A d, n : ~Entry(InitInode(Zeroed, TRUE), d, n)
<1> DEFINE i == GetFreeBit(Zeroed.ibits, Ino)
           g == InitInode(Zeroed, TRUE)
<1>1. Good(Zeroed) /\ Zeroed.ibits = {} /\ Zeroed \in DiskType
  BY ZeroedLemma DEF Good
<1>2. HasFree(Zeroed.ibits, Ino)
  BY <1>1, Disk DEF HasFree
<1>3. i \in Ino \ Zeroed.ibits /\ Taken(Zeroed, g, i, TRUE)
  BY <1>1, <1>2, InitInodeLemma
<1>4. i = Root
  <2>1. i = Least(Ino)
    <3>1. Ino \ Zeroed.ibits = Ino
      BY <1>1
    <3> QED BY <3>1 DEF GetFreeBit
  <2>2. i \in Ino /\ \A y \in Ino : i <= y
    <3>1. Ino \in SUBSET Nat /\ IsFiniteSet(Ino) /\ Ino # {}
      BY Disk
    <3> HIDE DEF i
    <3> QED BY <2>1, <3>1, LeastLemma
  <2> HIDE DEF i
  <2> QED BY <2>2, Disk DEF Root
<1> HIDE DEF i, g
<1>5. /\ Good(g) /\ g.ibits = Zeroed.ibits \cup {i} /\ g.inodes[i].dir = TRUE
      /\ \A d, n : Entry(g, d, n) <=> Entry(Zeroed, d, n)
  <2> DEFINE dir == TRUE
  <2>1. dir \in BOOLEAN /\ Taken(Zeroed, g, i, dir)
    BY <1>3
  <2> HIDE DEF dir
  <2>2. /\ Good(g) /\ g.ibits = Zeroed.ibits \cup {i} /\ g.inodes[i].dir = dir
        /\ \A d, n : Entry(g, d, n) <=> Entry(Zeroed, d, n)
    BY <2>1, <1>1, <1>3, TakenGood
  <2> QED BY <2>2 DEF dir
<1>6. \A d, n : ~Entry(g, d, n)
  BY <1>1, <1>5 DEF Entry
<1>7. NamedAs(g, {})
  BY <1>1, <1>4, <1>5, <1>6 DEF NamedAs
<1>8. g.ibits \ {Root} = {}
  BY <1>1, <1>4, <1>5
<1> QED BY <1>5, <1>6, <1>7, <1>8 DEF InOrder, g


-----------------------------------------------------------------------------
(* The process.                                                             *)

\* The invariant: the disk of a process that serves is in order, and so is the
\* image when it was written to its end.
FsInv ==
  /\ Good(fs) /\ Good(image)
  /\ status \in {"up", "saving", "leaving"} => InOrder(fs)
  /\ imaged = "whole" => InOrder(image)
  /\ imaged \in {"none", "torn", "whole"} /\ since \in Nat
  /\ status \in {"down", "up", "saving", "leaving", "broken"}

LEMMA InitFs == Init => FsInv
BY ZeroedLemma DEF Init, FsInv

\* A handler that leaves the disk in order leaves the rest of the process alone.
LEMMA ChangeLemma ==
  ASSUME FsInv, status = "up", NEW f, InOrder(f), Change(f)
  PROVE  FsInv'
<1>1. fs' = f /\ image' = image /\ imaged' = imaged /\ status' = status
      /\ since' = (IF imaged = "none" THEN 0 ELSE since + 1)
  BY DEF Change
<1>2. since' \in Nat
  BY <1>1 DEF FsInv
<1>3. Good(fs)' /\ InOrder(fs)'
  BY <1>1 DEF InOrder
<1>4. Good(image)' /\ (imaged = "whole" => InOrder(image))'
  BY <1>1 DEF FsInv
<1> QED BY <1>1, <1>2, <1>3, <1>4 DEF FsInv

LEMMA AddStep ==
  ASSUME FsInv, NEW path \in Paths, NEW dir \in BOOLEAN, Add(path, dir)
  PROVE  FsInv'
<1> DEFINE g == InsertDentry(InitInode(fs, dir), FindInode(fs, Parent(path)),
                             GetFreeBit(fs.ibits, Ino), Filename(path))
<1>1. status = "up" /\ path # <<>> /\ CanCreate(fs, path) /\ Change(g)
  BY DEF Add, Up
<1>2. InOrder(fs)
  BY <1>1 DEF FsInv
<1>3. InOrder(g)
  BY <1>1, <1>2, AddLemma
<1> HIDE DEF g
<1> QED BY <1>1, <1>3, ChangeLemma

\* A file that a path names.
LEMMA FileFound ==
  ASSUME FsInv, status = "up", NEW path \in Paths, IsFile(fs, path)
  PROVE  /\ InOrder(fs) /\ Good(fs) /\ fs \in DiskType
         /\ FindInode(fs, path) \in fs.ibits /\ FindInode(fs, path) \in Ino
         /\ ~fs.inodes[FindInode(fs, path)].dir
         /\ fs.inodes[FindInode(fs, path)].size \in Nat
<1>1. InOrder(fs) /\ Good(fs) /\ fs \in DiskType /\ fs.ibits \subseteq Ino
  BY TypeFields DEF FsInv, Good
<1>2. FindInode(fs, path) \in fs.ibits
  BY <1>1, InOrderFinds DEF IsFile
<1> QED BY <1>1, <1>2, InodeType DEF IsFile

LEMMA WriteStep ==
  ASSUME FsInv, NEW path \in Paths, NEW buf \in Buffers, NEW offset \in Offsets,
         Write(path, buf, offset)
  PROVE  FsInv'
<1> DEFINE ino == FindInode(fs, path)
           g == WriteFile(fs, ino, buf, offset)
<1>1. /\ status = "up" /\ IsFile(fs, path)
      /\ offset <= fs.inodes[ino].size /\ Len(buf) + offset <= MaxSize /\ buf # <<>>
      /\ Change(g)
  BY DEF Write, Up
<1>2. buf \in Seq(Byte) /\ offset \in Nat
  BY DiskAssumption
<1>3. offset + Len(buf) <= MaxSize
  BY <1>1, <1>2, Disk, LenProperties
<1>4. InOrder(fs) /\ Good(fs) /\ ino \in fs.ibits /\ ~fs.inodes[ino].dir
  BY <1>1, FileFound
<1> HIDE DEF ino
<1>5. Good(g) /\ OnlyThat(fs, g, ino)
  BY <1>1, <1>2, <1>3, <1>4, WriteLemma
<1> HIDE DEF g
<1>6. InOrder(g)
  BY <1>4, <1>5, FileLemma
<1> QED BY <1>1, <1>6, ChangeLemma

LEMMA TruncateStep ==
  ASSUME FsInv, NEW path \in Paths, NEW length \in Lengths, Truncate(path, length)
  PROVE  FsInv'
<1> DEFINE ino == FindInode(fs, path)
           size == fs.inodes[ino].size
           zeroes == [i \in 1..(length - size) |-> Zero]
           g == IF length > size THEN WriteFile(fs, ino, zeroes, size)
                ELSE ShrinkFile(fs, ino, length)
<1>1. /\ status = "up" /\ IsFile(fs, path) /\ length <= MaxSize /\ length # size /\ Change(g)
  BY DEF Truncate, Up
<1>2. length \in Nat /\ Zero \in Byte
  BY DiskAssumption
<1>3. InOrder(fs) /\ Good(fs) /\ ino \in fs.ibits /\ ~fs.inodes[ino].dir /\ size \in Nat
  BY <1>1, FileFound
<1>4. Good(g) /\ OnlyThat(fs, g, ino)
  <2>1. CASE length > size
    <3>1. length - size \in Nat \ {0} /\ size <= fs.inodes[ino].size
      <4>1. size <= fs.inodes[ino].size
        BY <1>3
      <4> HIDE DEF size
      <4> QED BY <4>1, <2>1, <1>2, <1>3
    <3>2. zeroes \in Seq(Byte) /\ Len(zeroes) = length - size /\ zeroes # <<>>
      <4>1. zeroes \in Seq(Byte) /\ Len(zeroes) = length - size
        <5> HIDE DEF size
        <5> QED BY <3>1, <1>2
      <4> HIDE DEF size, zeroes
      <4> QED BY <4>1, <3>1, EmptySeq
    <3>3. size + Len(zeroes) <= MaxSize
      <4> HIDE DEF size, zeroes
      <4> QED BY <3>2, <1>1, <1>2, <1>3
    <3>4. g = WriteFile(fs, ino, zeroes, size)
      BY <2>1
    <3> HIDE DEF g, zeroes, ino, size
    <3> QED BY <3>1, <3>2, <3>3, <3>4, <1>3, WriteLemma
  <2>2. CASE ~(length > size)
    <3>1. g = ShrinkFile(fs, ino, length)
      BY <2>2
    <3> HIDE DEF g, ino, size
    <3> QED BY <3>1, <1>2, <1>3, ShrinkLemma
  <2> QED BY <2>1, <2>2
<1> HIDE DEF g, ino, size
<1>5. InOrder(g)
  BY <1>3, <1>4, FileLemma
<1> QED BY <1>1, <1>5, ChangeLemma

LEMMA UnlinkStep ==
  ASSUME FsInv, NEW path \in Paths, Unlink(path) \/ Rmdir(path)
  PROVE  FsInv'
<1> DEFINE ino == FindInode(fs, path)
           g == UnlinkInode(fs, path, ino)
<1>1. status = "up" /\ Change(g)
  BY DEF Unlink, Rmdir, Up
<1>2. InOrder(fs)
  BY <1>1 DEF FsInv
<1>3. ino # NoIno /\ ino # Root /\ (fs.inodes[ino].dir => fs.inodes[ino].size = 0)
  <2>1. CASE Unlink(path)
    <3>1. IsFile(fs, path)
      BY <2>1 DEF Unlink
    <3>2. ino # NoIno /\ ~fs.inodes[ino].dir
      BY <3>1 DEF IsFile
    <3>3. fs.inodes[Root].dir = TRUE
      BY <1>2 DEF InOrder, NamedAs
    <3> QED BY <3>2, <3>3
  <2>2. CASE Rmdir(path)
    BY <2>2 DEF Rmdir
  <2> QED BY <2>1, <2>2
<1>4. InOrder(g)
  BY <1>2, <1>3, UnlinkLemma
<1> HIDE DEF g
<1> QED BY <1>1, <1>4, ChangeLemma

LEMMA ImageStep ==
  ASSUME FsInv, SaveOpen \/ SaveClose \/ Crash \/ Mount
  PROVE  FsInv'
<1>0. Good(Zeroed)
  BY ZeroedLemma
<1>1. CASE SaveOpen
  BY <1>0, <1>1 DEF SaveOpen, FsInv
<1>2. CASE SaveClose
  <2>1. imaged' = "whole" /\ image' = fs /\ since' = 0 /\ InOrder(fs) /\ Good(fs)
    BY <1>2 DEF SaveClose, Save, FsInv
  <2>2. CASE status = "saving"
    <3>1. status' = "up" /\ fs' = fs
      BY <2>2, <1>2 DEF SaveClose
    <3> QED BY <2>1, <3>1 DEF FsInv
  <2>3. CASE status # "saving"
    <3>1. status' = "down" /\ fs' = Zeroed
      BY <2>3, <1>2 DEF SaveClose
    <3> QED BY <2>1, <3>1, <1>0 DEF FsInv
  <2> QED BY <2>2, <2>3
<1>3. CASE Crash
  BY <1>0, <1>3 DEF Crash, FsInv
<1>4. CASE Mount
  <2>1. since' = 0 /\ image' = image /\ imaged' = imaged
    BY <1>4 DEF Mount
  <2>2. CASE imaged = "none"
    <3>1. status' = "up" /\ fs' = InitInode(Zeroed, TRUE)
      BY <2>2, <1>4 DEF Mount
    <3>2. InOrder(fs') /\ Good(fs')
      BY <3>1, MountLemma DEF InOrder
    <3> QED BY <2>1, <3>1, <3>2 DEF FsInv
  <2>3. CASE imaged = "torn"
    <3>1. status' = "broken" /\ fs' = Zeroed
      BY <2>3, <1>4 DEF Mount
    <3> QED BY <2>1, <3>1, <1>0 DEF FsInv
  <2>4. CASE imaged = "whole"
    <3>1. status' = "up" /\ fs' = image
      BY <2>4, <1>4 DEF Mount
    <3> QED BY <2>1, <2>4, <3>1 DEF FsInv
  <2> QED BY <2>2, <2>3, <2>4 DEF FsInv
<1> QED BY <1>1, <1>2, <1>3, <1>4

LEMMA NextFs == FsInv /\ [Next]_vars => FsInv'
<1> SUFFICES ASSUME FsInv, [Next]_vars PROVE FsInv'
  OBVIOUS
<1>1. ASSUME NEW path \in Paths, Create(path) PROVE FsInv'
  BY <1>1, AddStep DEF Create
<1>2. ASSUME NEW path \in Paths, Mkdir(path) PROVE FsInv'
  BY <1>2, AddStep DEF Mkdir
<1>3. ASSUME NEW path \in Paths, NEW buf \in Buffers, NEW offset \in Offsets, Write(path, buf, offset)
      PROVE  FsInv'
  BY <1>3, WriteStep
<1>4. ASSUME NEW path \in Paths, NEW length \in Lengths, Truncate(path, length) PROVE FsInv'
  BY <1>4, TruncateStep
<1>5. ASSUME NEW path \in Paths, Unlink(path) \/ Rmdir(path) PROVE FsInv'
  BY <1>5, UnlinkStep
<1>6. CASE SaveOpen \/ SaveClose \/ Crash \/ Mount
  BY <1>6, ImageStep
<1>7. CASE UNCHANGED vars
  <2>1. fs' = fs /\ image' = image /\ imaged' = imaged /\ status' = status /\ since' = since
    BY <1>7 DEF vars
  <2> QED BY <2>1 DEF FsInv
<1> QED BY <1>1, <1>2, <1>3, <1>4, <1>5, <1>6, <1>7 DEF Next

LEMMA FsInvariant == Spec => []FsInv
BY InitFs, NextFs, PTL DEF Spec


-----------------------------------------------------------------------------
(* What the invariant says of the properties.                               *)

LEMMA TypeFs == FsInv => TypeOK
<1> SUFFICES ASSUME FsInv PROVE TypeOK
  OBVIOUS
<1>1. fs \in DiskType /\ image \in DiskType /\ \A i \in fs.ibits : Whole(fs, i)
  BY DEF FsInv, Good
<1>2. ASSUME NEW i \in fs.ibits, NEW n \in 0..(fs.inodes[i].size - 1)
      PROVE  CellAt(fs, i, n) \in (IF fs.inodes[i].dir THEN Name \X Ino ELSE Byte)
  <2>1. CellAt(fs, i, n) \in Kind(fs, i)
    BY <1>1 DEF Whole, Holds
  <2> QED BY <2>1 DEF Kind
<1> QED BY <1>1, <1>2 DEF TypeOK, FsInv

LEMMA FitFs ==
  ASSUME NEW dir \in BOOLEAN, NEW size \in Nat, NEW used \in Nat, Fits(dir, size, used)
  PROVE  /\ size <= used * BlockLen
         /\ used <= size \div BlockLen + 1
         /\ dir \/ size = 0 => (size + BlockLen - 1) \div BlockLen = used
         /\ used <= MaxBlocks + 1
<1>1. /\ size <= used * BlockLen /\ used * BlockLen <= size + BlockLen
      /\ dir \/ size = 0 => used * BlockLen < size + BlockLen
      /\ used <= MaxBlocks + 1
  BY DEF Fits
<1>2. BlockLen \in Nat \ {0} /\ used * BlockLen \in Nat
      /\ (used + 1) * BlockLen = used * BlockLen + BlockLen
  BY Disk, Times
<1> DEFINE q == size \div BlockLen
<1>3. q \in Nat /\ size < (q + 1) * BlockLen /\ (q + 1) * BlockLen \in Nat
      /\ (q + 2) * BlockLen = (q + 1) * BlockLen + BlockLen
  <2>1. q \in Nat
    BY DivLemma
  <2>2. q + 1 \in Nat /\ q < q + 1
    BY <2>1
  <2>3. size < (q + 1) * BlockLen
    BY <2>2, DivLemma
  <2> HIDE DEF q
  <2>4. (q + 1) * BlockLen \in Nat /\ ((q + 1) + 1) * BlockLen = (q + 1) * BlockLen + BlockLen
    BY <2>2, Times
  <2>5. (q + 1) + 1 = q + 2
    BY <2>1
  <2> QED BY <2>1, <2>3, <2>4, <2>5
<1> HIDE DEF q
<1>4. used <= q + 1
  <2>1. used * BlockLen < (q + 2) * BlockLen
    BY <1>1, <1>2, <1>3
  <2>2. used < q + 2
    BY <2>1, <1>3, Times
  <2> QED BY <2>2, <1>3
<1>5. ASSUME dir \/ size = 0 PROVE (size + BlockLen - 1) \div BlockLen = used
  <2> DEFINE n == size + BlockLen - 1
             p == n \div BlockLen
  <2>1. n \in Nat /\ n < (used + 1) * BlockLen /\ ~(n < used * BlockLen)
    BY <1>1, <1>2, <1>5
  <2> HIDE DEF n
  <2>2. p \in Nat /\ p < used + 1 /\ ~(p < used)
    <3>1. used + 1 \in Nat
      OBVIOUS
    <3> QED BY <2>1, <3>1, DivLemma
  <2> HIDE DEF p
  <2>3. p = used
    BY <2>2
  <2> QED BY <2>3 DEF p, n
<1> QED BY <1>1, <1>4, <1>5 DEF q

LEMMA FitsFs == FsInv => BlocksFit
<1> SUFFICES ASSUME FsInv, NEW i \in fs.ibits
             PROVE  LET used == Len(fs.inodes[i].blocks)
                    IN  /\ fs.inodes[i].size <= used * BlockLen
                        /\ used <= fs.inodes[i].size \div BlockLen + 1
                        /\ fs.inodes[i].dir \/ fs.inodes[i].size = 0
                             => (fs.inodes[i].size + BlockLen - 1) \div BlockLen = used
                        /\ used <= MaxBlocks + 1
  BY DEF BlocksFit
<1> DEFINE used == Len(fs.inodes[i].blocks)
           size == fs.inodes[i].size
           dir == fs.inodes[i].dir
<1>1. fs \in DiskType /\ i \in Ino /\ Whole(fs, i)
  BY TypeFields DEF FsInv, Good
<1>2. used \in Nat /\ size \in Nat /\ dir \in BOOLEAN
  BY <1>1, InodeType
<1>3. Fits(dir, size, used)
  BY <1>1 DEF Whole
<1>4. /\ size <= used * BlockLen
      /\ used <= size \div BlockLen + 1
      /\ dir \/ size = 0 => (size + BlockLen - 1) \div BlockLen = used
      /\ used <= MaxBlocks + 1
  <2> HIDE DEF used, size, dir
  <2> QED BY <1>2, <1>3, FitFs
<1> QED BY <1>4

\* A set with an element that all others are equal to has one.
LEMMA OneOnly ==
  ASSUME NEW U, NEW x \in U, \A y \in U : y = x
  PROVE  Cardinality(U) = 1
<1>1. U = {x}
  OBVIOUS
<1> QED BY <1>1, FS_Singleton

LEMMA InodesFs == FsInv => InodesExact
<1> SUFFICES ASSUME FsInv, status \in {"up", "saving", "leaving"} PROVE
      /\ fs.inodes[Root].dir /\ Root \in fs.ibits
      /\ \A i \in Ino : Cardinality(Names(i)) = (IF i \in fs.ibits \ {Root} THEN 1 ELSE 0)
  BY DEF InodesExact
<1> DEFINE S == fs.ibits \ {Root}
<1>1. fs \in DiskType /\ NamedAs(fs, S) /\ fs.ibits \subseteq Ino
  BY TypeFields DEF FsInv, InOrder, Good
<1>2. /\ Root \in fs.ibits /\ fs.inodes[Root].dir = TRUE
      /\ \A d, n : Entry(fs, d, n) => CellAt(fs, d, n)[2] \in S
      /\ \A d, n, e, m : Entry(fs, d, n) /\ Entry(fs, e, m) /\ CellAt(fs, d, n)[2] = CellAt(fs, e, m)[2]
                       => d = e /\ n = m
      /\ \A j \in S : \E d, n : Entry(fs, d, n) /\ CellAt(fs, d, n)[2] = j
  <2> HIDE DEF S
  <2> QED BY <1>1 DEF NamedAs
<1> HIDE DEF S
<1>3. ASSUME NEW i, NEW x \in Names(i)
      PROVE  Entry(fs, x[1], x[2]) /\ CellAt(fs, x[1], x[2])[2] = i
             /\ x \in fs.ibits \X (0..(MaxSize - 1))
  <2>1. /\ x \in fs.ibits \X (0..(MaxSize - 1))
        /\ fs.inodes[x[1]].dir /\ x[2] < fs.inodes[x[1]].size
        /\ CellAt(fs, x[1], x[2])[2] = i
    BY DEF Names
  <2>2. x[1] \in fs.ibits /\ x[2] \in 0..(MaxSize - 1)
    BY <2>1
  <2>3. x[2] \in Nat
    BY <2>2, Disk
  <2>4. fs.inodes[x[1]].dir = TRUE /\ fs.inodes[x[1]].size \in Nat
    <3>1. x[1] \in Ino
      BY <2>2, <1>1
    <3> QED BY <3>1, <2>1, <1>1, InodeType
  <2>5. x[2] \in 0 .. (fs.inodes[x[1]].size - 1)
    <3> DEFINE size == fs.inodes[x[1]].size
               n == x[2]
    <3>1. n \in Nat /\ size \in Nat /\ n < size
      BY <2>1, <2>3, <2>4
    <3> HIDE DEF n, size
    <3>2. n \in 0 .. (size - 1)
      BY <3>1
    <3> QED BY <3>2 DEF n, size
  <2>6. Entry(fs, x[1], x[2])
    BY <2>2, <2>4, <2>5 DEF Entry
  <2> QED BY <2>1, <2>6
<1>4. ASSUME NEW i \in Ino, i \in S PROVE Cardinality(Names(i)) = 1
  <2>1. PICK d, n : Entry(fs, d, n) /\ CellAt(fs, d, n)[2] = i
    BY <1>2, <1>4
  <2> DEFINE x == <<d, n>>
  <2>2. x \in Names(i)
    <3>1. d \in fs.ibits /\ d \in Ino /\ fs.inodes[d].dir = TRUE /\ n \in 0 .. (fs.inodes[d].size - 1)
      BY <2>1, <1>1 DEF Entry
    <3>2. fs.inodes[d].size \in 0..MaxSize /\ fs.inodes[d].size \in Nat /\ MaxSize \in Nat
      BY <3>1, <1>1, InodeType, Disk
    <3>3. n \in 0 .. (MaxSize - 1) /\ n < fs.inodes[d].size
      BY <3>1, <3>2
    <3> QED BY <2>1, <3>1, <3>3 DEF Names
  <2>3. ASSUME NEW y \in Names(i) PROVE y = x
    <3>1. Entry(fs, y[1], y[2]) /\ CellAt(fs, y[1], y[2])[2] = i /\ y \in fs.ibits \X (0..(MaxSize - 1))
      BY <1>3
    <3>2. y[1] = d /\ y[2] = n
      BY <2>1, <3>1, <1>2
    <3>3. y = <<y[1], y[2]>>
      BY <3>1
    <3> QED BY <3>2, <3>3
  <2> HIDE DEF x
  <2> QED BY <2>2, <2>3, OneOnly
<1>5. ASSUME NEW i \in Ino, i \notin S PROVE Cardinality(Names(i)) = 0
  <2>1. Names(i) = {}
    <3>1. ASSUME NEW x \in Names(i) PROVE FALSE
      BY <3>1, <1>2, <1>3, <1>5
    <3> QED BY <3>1
  <2> QED BY <2>1, FS_EmptySet
<1> QED BY <1>2, <1>4, <1>5 DEF S

LEMMA BlocksFs == FsInv => BlocksExact
<1> SUFFICES ASSUME FsInv, NEW b \in Block
             PROVE  Cardinality(Places(b)) = (IF b \in fs.dbits THEN 1 ELSE 0)
  BY DEF BlocksExact
<1>1. fs \in DiskType /\ Owned(fs) /\ fs.ibits \subseteq Ino /\ \A i \in fs.ibits : Whole(fs, i)
  BY TypeFields DEF FsInv, Good
<1>2. /\ \A i \in fs.ibits : \A n \in DOMAIN fs.inodes[i].blocks : fs.inodes[i].blocks[n] \in fs.dbits
      /\ \A i, j \in fs.ibits :
           \A n \in DOMAIN fs.inodes[i].blocks, m \in DOMAIN fs.inodes[j].blocks :
             fs.inodes[i].blocks[n] = fs.inodes[j].blocks[m] => i = j /\ n = m
      /\ \A c \in fs.dbits : \E i \in fs.ibits : \E n \in DOMAIN fs.inodes[i].blocks :
           fs.inodes[i].blocks[n] = c
  BY <1>1 DEF Owned
<1>3. \A i \in fs.ibits : /\ DOMAIN fs.inodes[i].blocks = 1 .. Len(fs.inodes[i].blocks)
                          /\ Len(fs.inodes[i].blocks) \in Nat
                          /\ Len(fs.inodes[i].blocks) <= MaxBlocks + 1
  BY <1>1, InodeType DEF Whole, Fits
<1>4. ASSUME NEW x \in Places(b)
      PROVE  /\ x = <<x[1], x[2]>> /\ x[1] \in fs.ibits /\ x[2] \in DOMAIN fs.inodes[x[1]].blocks
             /\ fs.inodes[x[1]].blocks[x[2]] = b
  <2>1. /\ x \in fs.ibits \X (1..(MaxBlocks + 1))
        /\ x[2] <= Len(fs.inodes[x[1]].blocks) /\ fs.inodes[x[1]].blocks[x[2]] = b
    BY DEF Places
  <2>2. x = <<x[1], x[2]>> /\ x[1] \in fs.ibits /\ x[2] \in 1..(MaxBlocks + 1)
    BY <2>1
  <2>3. x[2] \in 1 .. Len(fs.inodes[x[1]].blocks)
    <3> DEFINE n == x[2]
               len == Len(fs.inodes[x[1]].blocks)
    <3>1. n \in 1 .. (MaxBlocks + 1) /\ len \in Nat /\ n <= len /\ MaxBlocks \in Nat
      BY <2>1, <2>2, <1>3, Disk
    <3> HIDE DEF n, len
    <3>2. n \in 1 .. len
      BY <3>1
    <3> QED BY <3>2 DEF n, len
  <2> QED BY <2>1, <2>2, <2>3, <1>3
<1>5. CASE b \in fs.dbits
  <2>1. PICK i \in fs.ibits : \E n \in DOMAIN fs.inodes[i].blocks : fs.inodes[i].blocks[n] = b
    BY <1>2, <1>5
  <2>2. PICK n \in DOMAIN fs.inodes[i].blocks : fs.inodes[i].blocks[n] = b
    BY <2>1
  <2> DEFINE x == <<i, n>>
  <2>3. x \in Places(b)
    <3>1. n \in 1 .. Len(fs.inodes[i].blocks) /\ Len(fs.inodes[i].blocks) \in Nat
          /\ Len(fs.inodes[i].blocks) <= MaxBlocks + 1 /\ MaxBlocks \in Nat
      BY <1>3, Disk
    <3>2. n \in 1 .. (MaxBlocks + 1) /\ n <= Len(fs.inodes[i].blocks)
      BY <3>1
    <3> QED BY <2>2, <3>2 DEF Places
  <2>4. ASSUME NEW y \in Places(b) PROVE y = x
    <3>1. /\ y = <<y[1], y[2]>> /\ y[1] \in fs.ibits /\ y[2] \in DOMAIN fs.inodes[y[1]].blocks
          /\ fs.inodes[y[1]].blocks[y[2]] = b
      BY <1>4
    <3>2. y[1] = i /\ y[2] = n
      BY <2>2, <3>1, <1>2
    <3> QED BY <3>1, <3>2
  <2> HIDE DEF x
  <2>5. Cardinality(Places(b)) = 1
    BY <2>3, <2>4, OneOnly
  <2> QED BY <2>5, <1>5
<1>6. CASE b \notin fs.dbits
  <2>1. Places(b) = {}
    <3>1. ASSUME NEW x \in Places(b) PROVE FALSE
      BY <3>1, <1>2, <1>4, <1>6
    <3> QED BY <3>1
  <2>2. Cardinality(Places(b)) = 0
    BY <2>1, FS_EmptySet
  <2> QED BY <2>2, <1>6
<1> QED BY <1>5, <1>6

\* What the inodes in use hold is of their kind: no handler reads a byte of a file
\* as an entry, or an entry as a byte.
THEOREM TypeCorrect == Spec => []TypeOK
BY FsInvariant, TypeFs, PTL

\* Each inode in use but the root is named by one entry of one directory, and no
\* entry names another: create, mkdir, unlink and rmdir keep the inode bitmap and
\* the directories in step, whatever was saved, lost in a crash and mounted again.
THEOREM InodesExactCorrect == Spec => []InodesExact
BY FsInvariant, InodesFs, PTL

\* A data block is in use exactly when one place of one inode in use holds it: what
\* write, truncate and unlink take and give back is neither lost nor given twice.
THEOREM BlocksExactCorrect == Spec => []BlocksExact
BY FsInvariant, BlocksFs, PTL

\* An inode has the blocks its size needs, and at most the one more that write_file()
\* takes when it ends on a block boundary.
THEOREM BlocksFitCorrect == Spec => []BlocksFit
BY FsInvariant, FitsFs, PTL

-----------------------------------------------------------------------------
(* Names and the paths to inodes.                                           *)

LEMMA LeastNat ==
  ASSUME NEW U \in SUBSET Nat, U # {} PROVE \E x \in U : \A y \in U : x <= y
<1>1. PICK x \in U : \A y \in U : <<y, x>> \notin OpToRel(<, Nat)
  BY NatLessThanWellFounded, WFMin
<1>2. \A y \in U : ~(y < x)
  BY <1>1 DEF OpToRel
<1> QED BY <1>2

\* Of the paths with some fault, one has a parent without it.
LEMMA FirstPath ==
  ASSUME NEW F \in SUBSET Paths, F # {}
  PROVE  \E p \in F : \A q \in Paths : Len(q) < Len(p) => q \notin F
<1> DEFINE U == {Len(p) : p \in F}
<1>1. U \in SUBSET Nat /\ U # {}
  BY PathLemma
<1>2. PICK x \in U : \A y \in U : x <= y
  <2> HIDE DEF U
  <2> QED BY <1>1, LeastNat
<1>3. PICK p \in F : x = Len(p)
  BY <1>2
<1>4. ASSUME NEW q \in Paths, Len(q) < Len(p), q \in F PROVE FALSE
  <2>1. Len(q) \in U /\ Len(q) \in Nat /\ Len(p) \in Nat
    BY <1>4, PathLemma
  <2> QED BY <2>1, <1>2, <1>3, <1>4
<1> QED BY <1>4

LEMMA ShorterParent ==
  ASSUME NEW p \in Paths, p # <<>>
  PROVE  Parent(p) \in Paths /\ Len(Parent(p)) < Len(p) /\ Parent(p) # p
         /\ Filename(p) \in Name
BY PathLemma

\* A path is its parent and its last name.
LEMMA PathParts ==
  ASSUME NEW p \in Paths, NEW q \in Paths, p # <<>>, q # <<>>,
         Parent(p) = Parent(q), Filename(p) = Filename(q)
  PROVE  p = q
<1>1. /\ Len(p) \in Nat /\ Len(q) \in Nat /\ Len(p) - 1 = Len(q) - 1
      /\ \A n \in 1 .. (Len(p) - 1) : Parent(p)[n] = p[n]
      /\ \A n \in 1 .. (Len(q) - 1) : Parent(q)[n] = q[n]
      /\ p[Len(p)] = q[Len(q)] /\ p \in Seq(Name) /\ q \in Seq(Name)
  BY PathLemma
<1>2. Len(p) = Len(q)
  BY <1>1
<1>3. \A n \in 1 .. Len(p) : p[n] = q[n]
  BY <1>1, <1>2
<1> QED BY <1>1, <1>2, <1>3, SeqEqual

\* No directory has two entries with one name.
NamesApart(f) ==
  \A d, n, m : Entry(f, d, n) /\ Entry(f, d, m) /\ CellAt(f, d, n)[1] = CellAt(f, d, m)[1]
                 => n = m

Tidy(f) == InOrder(f) /\ NamesApart(f)

\* Directory d has inode i under a name.
Link(f, d, name, i) ==
  \E n : Entry(f, d, n) /\ CellAt(f, d, n)[1] = name /\ CellAt(f, d, n)[2] = i

LEMMA NoneInNone ==
  ASSUME NEW f, NEW name \in Name, NEW d \in Ino \cup {NoIno}, d = NoIno \/ ~f.inodes[d].dir
  PROVE  FindInDir(f)[d][name] = NoIno
BY DEF FindInDir

\* find_inode() finds an inode under a name when, and only when, an entry says so.
LEMMA FoundLink ==
  ASSUME NEW f, Good(f), NEW d \in f.ibits, NEW name \in Name, f.inodes[d].dir = TRUE
  PROVE  /\ (\E i : Link(f, d, name, i)) => Link(f, d, name, FindInDir(f)[d][name])
         /\ (~\E i : Link(f, d, name, i)) => FindInDir(f)[d][name] = NoIno
<1> DEFINE p == f.inodes[d].size - 1
           at == {i \in 0..p : CellAt(f, d, i)[1] = name}
<1>1. f \in DiskType /\ d \in Ino
  BY TypeFields DEF Good
<1>2. p \in Int /\ 0 .. p \subseteq Nat
  <2>1. f.inodes[d].size \in Nat
    BY <1>1, InodeType
  <2> QED BY <2>1
<1>3. d # NoIno => FindInDir(f)[d][name] = IF at = {} THEN NoIno ELSE CellAt(f, d, Least(at))[2]
  BY <1>1 DEF FindInDir
<1>4. CASE at = {}
  <2>1. ~\E i : Link(f, d, name, i)
    BY <1>4 DEF Link, Entry
  <2>2. FindInDir(f)[d][name] = NoIno
    BY <1>1, <1>3, <1>4, NoneInNone
  <2> QED BY <2>1, <2>2
<1>5. CASE at # {}
  <2>1. IsFiniteSet(at) /\ at \in SUBSET Nat
    <3>1. at \subseteq 0 .. p /\ IsFiniteSet(0 .. p)
      <4> HIDE DEF p
      <4>1. IsFiniteSet(0 .. p)
        BY <1>2, FS_Interval
      <4> QED BY <4>1
    <3> HIDE DEF at, p
    <3> QED BY <3>1, <1>2, FS_Subset
  <2>2. Least(at) \in at
    <3> HIDE DEF at
    <3> QED BY <2>1, <1>5, LeastLemma
  <2>3. Entry(f, d, Least(at)) /\ CellAt(f, d, Least(at))[1] = name
    <3>1. Least(at) \in 0 .. p /\ CellAt(f, d, Least(at))[1] = name
      BY <2>2
    <3> HIDE DEF at
    <3> QED BY <3>1 DEF Entry
  <2>4. d # NoIno => Link(f, d, name, FindInDir(f)[d][name])
    <3> HIDE DEF at
    <3>1. d # NoIno => FindInDir(f)[d][name] = CellAt(f, d, Least(at))[2]
      BY <1>3, <1>5
    <3> QED BY <3>1, <2>3 DEF Link
  <2>5. d # NoIno
    BY <1>1, ValueAssumption
  <2>6. \E i : Link(f, d, name, i)
    BY <2>4, <2>5
  <2> QED BY <2>4, <2>5, <2>6
<1> QED BY <1>4, <1>5

LEMMA LinkInUse ==
  ASSUME NEW f, InOrder(f), NEW d, NEW name, NEW i, Link(f, d, name, i)
  PROVE  i \in f.ibits /\ i # Root /\ i # NoIno /\ d \in f.ibits /\ f.inodes[d].dir = TRUE
<1>1. i \in f.ibits \ {Root}
  BY DEF InOrder, NamedAs, Link
<1>2. f.ibits \subseteq Ino
  BY TypeFields DEF InOrder, Good
<1> QED BY <1>1, <1>2, ValueAssumption DEF Link, Entry

LEMMA FindIsLink ==
  ASSUME NEW f, Tidy(f), NEW d \in f.ibits \cup {NoIno}, NEW name \in Name,
         NEW i, i # NoIno
  PROVE  FindInDir(f)[d][name] = i <=> d # NoIno /\ Link(f, d, name, i)
<1>1. InOrder(f) /\ NamesApart(f) /\ Good(f) /\ f.ibits \subseteq Ino
  BY TypeFields DEF Tidy, InOrder, Good
<1>2. CASE d = NoIno \/ f.inodes[d].dir # TRUE
  <2>1. FindInDir(f)[d][name] = NoIno
    <3>1. ASSUME d # NoIno PROVE f.inodes[d].dir \in BOOLEAN
      <4>1. f \in DiskType /\ d \in Ino
        BY <3>1, <1>1 DEF Good
      <4> QED BY <4>1, InodeType
    <3> QED BY <3>1, <1>1, <1>2, NoneInNone
  <2>2. ~(d # NoIno /\ Link(f, d, name, i))
    BY <1>2 DEF Link, Entry
  <2> QED BY <2>1, <2>2
<1>3. CASE d # NoIno /\ f.inodes[d].dir = TRUE
  <2>1. d \in f.ibits
    BY <1>3
  <2>2. ASSUME NEW j, Link(f, d, name, i), Link(f, d, name, j) PROVE i = j
    BY <2>2, <1>1 DEF Link, NamesApart
  <2> QED BY <2>1, <2>2, <1>1, <1>3, FoundLink
<1> QED BY <1>2, <1>3

\* Each inode that is found is found by one path.
LEMMA OnePath ==
  ASSUME NEW f, Tidy(f), NEW p \in Paths, NEW q \in Paths,
         FindInode(f, p) = FindInode(f, q), FindInode(f, p) # NoIno
  PROVE  p = q
<1> DEFINE F == {r \in Paths : \E s \in Paths : /\ FindInode(f, r) = FindInode(f, s)
                                                /\ FindInode(f, r) # NoIno /\ r # s}
<1>1. SUFFICES ASSUME F # {} PROVE FALSE
  OBVIOUS
<1>2. PICK r \in F : \A t \in Paths : Len(t) < Len(r) => t \notin F
  <2>1. F \in SUBSET Paths
    OBVIOUS
  <2> HIDE DEF F
  <2> QED BY <1>1, <2>1, FirstPath
<1>3. PICK s \in Paths : FindInode(f, r) = FindInode(f, s) /\ FindInode(f, r) # NoIno /\ r # s
  OBVIOUS
<1>4. r \in Paths
  OBVIOUS
<1>5. \A t \in Paths : Len(t) < Len(r) =>
        \A u \in Paths : FindInode(f, t) = FindInode(f, u) /\ FindInode(f, t) # NoIno => t = u
  BY <1>2
<1> HIDE DEF F
<1> DEFINE i == FindInode(f, r)
<1>6. ASSUME NEW t \in Paths, t # <<>>, FindInode(f, t) = i
      PROVE  /\ Link(f, FindInode(f, Parent(t)), Filename(t), i)
             /\ FindInode(f, Parent(t)) # NoIno /\ i # Root
  <2>1. FindInDir(f)[FindInode(f, Parent(t))][Filename(t)] = i
    BY <1>6, StepLemma
  <2>2. /\ Parent(t) \in Paths /\ Filename(t) \in Name /\ i # NoIno
        /\ FindInode(f, Parent(t)) \in f.ibits \cup {NoIno}
    BY <1>3, <1>6, ShorterParent, InOrderFinds DEF Tidy
  <2> HIDE DEF i
  <2>3. Link(f, FindInode(f, Parent(t)), Filename(t), i) /\ FindInode(f, Parent(t)) # NoIno
    BY <2>1, <2>2, FindIsLink
  <2> QED BY <2>3, LinkInUse DEF Tidy
<1>7. r # <<>> /\ s # <<>>
  <2>1. r = <<>> => i = Root
    BY <1>4, RootPath
  <2>2. s = <<>> => i = Root
    BY <1>3, RootPath
  <2>3. r = <<>> \/ s = <<>> => r # <<>> \/ s # <<>>
    BY <1>3
  <2> QED BY <2>1, <2>2, <2>3, <1>3, <1>4, <1>6
<1>8. /\ Link(f, FindInode(f, Parent(r)), Filename(r), i)
      /\ Link(f, FindInode(f, Parent(s)), Filename(s), i)
      /\ FindInode(f, Parent(r)) # NoIno
  BY <1>3, <1>4, <1>6, <1>7
<1>9. FindInode(f, Parent(r)) = FindInode(f, Parent(s)) /\ Filename(r) = Filename(s)
  <2> DEFINE d == FindInode(f, Parent(r))
             e == FindInode(f, Parent(s))
  <2> HIDE DEF d, e, i
  <2>1. PICK n : Entry(f, d, n) /\ CellAt(f, d, n)[1] = Filename(r) /\ CellAt(f, d, n)[2] = i
    BY <1>8 DEF Link, d
  <2>2. PICK m : Entry(f, e, m) /\ CellAt(f, e, m)[1] = Filename(s) /\ CellAt(f, e, m)[2] = i
    BY <1>8 DEF Link, e
  <2>3. d = e /\ n = m
    BY <2>1, <2>2 DEF Tidy, InOrder, NamedAs
  <2> QED BY <2>1, <2>2, <2>3 DEF d, e
<1>10. Parent(r) = Parent(s)
  <2>1. Parent(r) \in Paths /\ Parent(s) \in Paths /\ Len(Parent(r)) < Len(r)
    BY <1>3, <1>4, <1>7, ShorterParent
  <2> QED BY <2>1, <1>5, <1>8, <1>9
<1> QED BY <1>3, <1>4, <1>7, <1>9, <1>10, PathParts

\* Where file system g finds something else than f: at path p alone, if the entry
\* for p is the only one that differs, and neither inode it names has entries.
LEMMA FoundElsewhere ==
  ASSUME NEW f, Tidy(f), NEW g, NEW p \in Paths, p # <<>>,
         NEW d, d = FindInode(f, Parent(p)),
         \A e \in f.ibits, name \in Name :
           e # FindInode(f, p) /\ (e # d \/ name # Filename(p)) =>
             FindInDir(g)[e][name] = FindInDir(f)[e][name],
         \A name \in Name : FindInDir(f)[FindInode(f, p)][name] = NoIno,
         \A name \in Name : FindInDir(g)[FindInDir(g)[d][Filename(p)]][name] = NoIno,
         NEW q \in Paths, q # p
  PROVE  FindInode(g, q) = FindInode(f, q)
<1> DEFINE F == {r \in Paths : r # p /\ FindInode(g, r) # FindInode(f, r)}
<1>1. SUFFICES ASSUME F # {} PROVE FALSE
  OBVIOUS
<1>2. PICK r \in F : \A t \in Paths : Len(t) < Len(r) => t \notin F
  <2>1. F \in SUBSET Paths
    OBVIOUS
  <2> HIDE DEF F
  <2> QED BY <1>1, <2>1, FirstPath
<1>3. r \in Paths /\ r # p /\ FindInode(g, r) # FindInode(f, r)
  OBVIOUS
<1>4. \A t \in Paths : Len(t) < Len(r) /\ t # p => FindInode(g, t) = FindInode(f, t)
  BY <1>2
<1> HIDE DEF F
<1>5. r # <<>>
  BY <1>3, RootPath
<1>6. /\ Parent(r) \in Paths /\ Len(Parent(r)) < Len(r) /\ Filename(r) \in Name
      /\ FindInode(f, r) = FindInDir(f)[FindInode(f, Parent(r))][Filename(r)]
      /\ FindInode(g, r) = FindInDir(g)[FindInode(g, Parent(r))][Filename(r)]
  BY <1>3, <1>5, ShorterParent, StepLemma
<1>7. CASE Parent(r) = p
  <2>1. FindInode(f, r) = NoIno
    BY <1>6, <1>7
  <2>2. FindInode(g, p) = FindInDir(g)[FindInode(g, Parent(p))][Filename(p)]
    BY StepLemma
  <2>3. FindInode(g, Parent(p)) = d
    <3>1. Parent(p) \in Paths /\ Len(Parent(p)) < Len(p) /\ Parent(p) # p
      BY ShorterParent
    <3>2. Len(Parent(p)) < Len(r)
      <4>1. Len(p) < Len(r) /\ Len(p) \in Nat /\ Len(r) \in Nat /\ Len(Parent(p)) \in Nat
        BY <3>1, <1>3, <1>6, <1>7, PathLemma
      <4> QED BY <3>1, <4>1
    <3> QED BY <3>1, <3>2, <1>4
  <2>4. FindInode(g, r) = NoIno
    BY <1>6, <1>7, <2>2, <2>3
  <2> QED BY <2>1, <2>4, <1>3
<1>8. CASE Parent(r) # p
  <2> DEFINE e == FindInode(f, Parent(r))
  <2>1. FindInode(g, Parent(r)) = e
    BY <1>4, <1>6, <1>8
  <2>2. e \in f.ibits \cup {NoIno}
    BY <1>6, InOrderFinds DEF Tidy
  <2>3. CASE e = NoIno
    BY <2>1, <2>3, <1>3, <1>6, NoneInNone
  <2>4. CASE e # NoIno
    <3>1. e # FindInode(f, p)
      BY <2>4, <1>6, <1>8, OnePath
    <3>2. e # d \/ Filename(r) # Filename(p)
      <4>1. ASSUME e = d, Filename(r) = Filename(p) PROVE FALSE
        <5>1. Parent(r) = Parent(p)
          BY <4>1, <2>4, <1>6, ShorterParent, OnePath
        <5> QED BY <5>1, <4>1, <1>3, <1>5, PathParts
      <4> QED BY <4>1
    <3>3. FindInode(g, r) = FindInode(f, r)
      <4> HIDE DEF e
      <4> QED BY <2>1, <2>2, <2>4, <3>1, <3>2, <1>6 DEF e
    <3> QED BY <3>3, <1>3
  <2> QED BY <2>3, <2>4
<1> QED BY <1>7, <1>8

LEMMA SameLinks ==
  ASSUME NEW f, Tidy(f), NEW g, Tidy(g), NEW e \in f.ibits, e \in g.ibits, NEW name \in Name,
         \A j : Link(g, e, name, j) <=> Link(f, e, name, j)
  PROVE  FindInDir(g)[e][name] = FindInDir(f)[e][name]
<1>1. \A j : j # NoIno => (FindInDir(f)[e][name] = j <=> e # NoIno /\ Link(f, e, name, j))
  BY FindIsLink
<1>2. \A j : j # NoIno => (FindInDir(g)[e][name] = j <=> e # NoIno /\ Link(g, e, name, j))
  BY FindIsLink
<1> QED BY <1>1, <1>2

LEMMA NoLinks ==
  ASSUME NEW f, Tidy(f), NEW e \in f.ibits \cup {NoIno}, NEW name \in Name,
         \A j : ~Link(f, e, name, j)
  PROVE  FindInDir(f)[e][name] = NoIno
BY FindIsLink

LEMMA SameEntries ==
  ASSUME NEW f, NEW g, NEW e, e \in f.ibits, e \in g.ibits, SameInode(f, g, e)
  PROVE  /\ \A n : Entry(g, e, n) <=> Entry(f, e, n)
         /\ \A n : Entry(f, e, n) => CellAt(g, e, n) = CellAt(f, e, n)
         /\ \A name, j : Link(g, e, name, j) <=> Link(f, e, name, j)
<1>1. \A n : Entry(g, e, n) <=> Entry(f, e, n)
  BY DEF SameInode, Entry
<1>2. \A n : Entry(f, e, n) => CellAt(g, e, n) = CellAt(f, e, n)
  BY DEF SameInode, Entry
<1> QED BY <1>1, <1>2 DEF Link

-----------------------------------------------------------------------------
(* What users see.                                                          *)

LEMMA TreeIs ==
  ASSUME NEW f, Good(f), NEW q \in Paths, NEW e \in Ino \cup {NoIno}, e = FindInode(f, q)
  PROVE  /\ e \notin f.ibits => TreeOf(f)[q] = None
         /\ e \in f.ibits /\ f.inodes[e].dir => TreeOf(f)[q] = Dir
         /\ e \in f.ibits /\ ~f.inodes[e].dir => TreeOf(f)[q] = Contents(f, e)
<1>1. TreeOf(f)[q] = Seen(f)[e]
  BY DEF TreeOf
<1> QED BY <1>1 DEF Seen

LEMMA FoundType ==
  ASSUME NEW f, InOrder(f), NEW q \in Paths
  PROVE  /\ FindInode(f, q) \in Ino \cup {NoIno} /\ FindInode(f, q) \in f.ibits \cup {NoIno}
         /\ NoIno \notin f.ibits /\ f.ibits \subseteq Ino
         /\ FindInode(f, q) \in f.ibits =>
              /\ f.inodes[FindInode(f, q)].size \in Nat
              /\ f.inodes[FindInode(f, q)].dir \in BOOLEAN
<1>1. f.ibits \subseteq Ino /\ f \in DiskType
  BY TypeFields DEF InOrder, Good
<1> QED BY <1>1, InOrderFinds, ValueAssumption, InodeType

\* But for the inode at path p, f and g have the same inodes with the same in them,
\* except for the entries of directories.
Beside(f, g, p) ==
  \A e \in f.ibits : e # FindInode(f, p) =>
    /\ e \in g.ibits
    /\ SameInode(f, g, e) \/ (f.inodes[e].dir = TRUE /\ g.inodes[e].dir = TRUE)

\* A change of the inode at path p, or of the directory that has it, shows at p alone.
LEMMA TreeElsewhere ==
  ASSUME NEW f, Tidy(f), NEW g, Good(g), NEW p \in Paths, NEW q \in Paths, q # p,
         FindInode(g, q) = FindInode(f, q), Beside(f, g, p)
  PROVE  TreeOf(g)[q] = TreeOf(f)[q]
<1> DEFINE e == FindInode(f, q)
<1>1. Good(f) /\ e \in Ino \cup {NoIno} /\ e \in f.ibits \cup {NoIno} /\ NoIno \notin f.ibits
      /\ (e \in f.ibits => f.inodes[e].size \in Nat)
  BY FoundType DEF Tidy, InOrder
<1>2. NoIno \notin g.ibits
  BY TypeFields, ValueAssumption DEF Good
<1>3. CASE e = NoIno
  BY <1>1, <1>2, <1>3, TreeIs
<1>4. CASE e # NoIno
  <2>1. e \in f.ibits /\ e # FindInode(f, p)
    BY <1>1, <1>4, OnePath
  <2>4. e \in g.ibits /\ (SameInode(f, g, e) \/ (f.inodes[e].dir = TRUE /\ g.inodes[e].dir = TRUE))
    BY <2>1 DEF Beside
  <2>2. CASE f.inodes[e].dir = TRUE /\ g.inodes[e].dir = TRUE
    BY <2>1, <2>2, <2>4, <1>1, TreeIs
  <2>3. CASE SameInode(f, g, e)
    <3>1. Contents(g, e) = Contents(f, e)
      <4>1. f.inodes[e].size \in Nat
        BY <1>1, <2>1
      <4>2. \A i \in 1 .. f.inodes[e].size : i - 1 \in 0 .. (f.inodes[e].size - 1)
        BY <4>1
      <4> QED BY <4>2, <2>3 DEF Contents, SameInode
    <3>2. g.inodes[e].dir = f.inodes[e].dir
      BY <2>3 DEF SameInode
    <3> QED BY <3>1, <3>2, <2>1, <2>4, <1>1, TreeIs
  <2> QED BY <2>2, <2>3, <2>4
<1> QED BY <1>3, <1>4

\* What the steps below make of the tree at p and elsewhere.
Only(f, g, p) == \A q \in Paths : q # p => TreeOf(g)[q] = TreeOf(f)[q]

\* fisopfs_create() and fisopfs_mkdir(): path p comes to be.
LEMMA AddTree ==
  ASSUME NEW f, Tidy(f), NEW p \in Paths, p # <<>>, CanCreate(f, p), NEW dir \in BOOLEAN,
         NEW g, g = InsertDentry(InitInode(f, dir), FindInode(f, Parent(p)),
                                 GetFreeBit(f.ibits, Ino), Filename(p))
  PROVE  /\ Tidy(g) /\ Only(f, g, p)
         /\ TreeOf(f)[p] = None /\ TreeOf(f)[Parent(p)] = Dir
         /\ TreeOf(g)[p] \in {Dir, <<>>}
<1> DEFINE d == FindInode(f, Parent(p))
           i == GetFreeBit(f.ibits, Ino)
           name == Filename(p)
<1>1. /\ InOrder(g) /\ d \in f.ibits /\ f.inodes[d].dir = TRUE
      /\ Linked(f, g, d, <<name, i>>, dir)
  BY AddLemma DEF Tidy
<1>2. Parent(p) \in Paths /\ name \in Name /\ Parent(p) # p
  BY ShorterParent
<1>3. FindInode(f, p) = NoIno /\ FindInDir(f)[d][name] = NoIno
  BY StepLemma DEF CanCreate
<1> HIDE DEF d, i, name
<1>4. /\ i \in Ino \ f.ibits /\ g.ibits = f.ibits \cup {i}
      /\ g.inodes[i].dir = dir /\ g.inodes[i].size = 0
      /\ g.inodes[d].dir = TRUE /\ g.inodes[d].size = f.inodes[d].size + 1
      /\ \A m \in 0 .. (f.inodes[d].size - 1) : CellAt(g, d, m) = CellAt(f, d, m)
      /\ CellAt(g, d, f.inodes[d].size)[1] = name
      /\ CellAt(g, d, f.inodes[d].size)[2] = i
      /\ \A j \in f.ibits \ {d} : SameInode(f, g, j)
      /\ f.inodes[d].size \in Nat /\ Good(f) /\ InOrder(f) /\ NamesApart(f) /\ Good(g)
  <2>1. f.inodes[d].size \in Nat
    BY <1>1, <1>2, FoundType DEF d, Tidy
  <2> QED BY <2>1, <1>1 DEF Linked, Tidy, InOrder
<1>5. \A j : ~Link(f, d, name, j)
  <2>1. ASSUME NEW j, Link(f, d, name, j) PROVE FALSE
    <3>1. Link(f, d, name, FindInDir(f)[d][name])
      BY <2>1, <1>1, <1>2, <1>4, FoundLink
    <3>2. Link(f, d, name, NoIno)
      BY <3>1, <1>3
    <3> QED BY <3>2, <1>4, LinkInUse
  <2> QED BY <2>1
<1>6. \A n : ~Entry(g, i, n)
  BY <1>4 DEF Entry
<1>7. \A n : Entry(g, d, n) <=> Entry(f, d, n) \/ n = f.inodes[d].size
  BY <1>1, <1>4 DEF Entry
<1>8. \A n : Entry(f, d, n) => CellAt(g, d, n) = CellAt(f, d, n)
  BY <1>4 DEF Entry
<1>9. NamesApart(g)
  <2> SUFFICES ASSUME NEW e, NEW n, NEW m, Entry(g, e, n), Entry(g, e, m),
                      CellAt(g, e, n)[1] = CellAt(g, e, m)[1]
               PROVE  n = m
    BY DEF NamesApart
  <2>1. e \in f.ibits
    BY <1>4, <1>6 DEF Entry
  <2>2. CASE e # d
    <3>1. SameInode(f, g, e) /\ e \in g.ibits
      BY <2>1, <2>2, <1>4
    <3> QED BY <3>1, <2>1, <1>4, SameEntries DEF NamesApart
  <2>3. CASE e = d
    <3>1. ASSUME NEW x, Entry(f, d, x) PROVE CellAt(f, d, x)[1] # name
      BY <3>1, <1>5 DEF Link
    <3> QED BY <3>1, <2>3, <1>4, <1>7, <1>8 DEF NamesApart
  <2> QED BY <2>2, <2>3
<1>10. Tidy(g)
  BY <1>1, <1>9 DEF Tidy
<1>11. ASSUME NEW e \in f.ibits, NEW nm \in Name, e # d \/ nm # name
       PROVE  FindInDir(g)[e][nm] = FindInDir(f)[e][nm]
  <2>1. e \in g.ibits
    BY <1>4
  <2>2. CASE e # d
    BY <2>1, <2>2, <1>4, <1>10, SameEntries, SameLinks
  <2>3. CASE e = d
    <3>1. \A j : Link(g, d, nm, j) <=> Link(f, d, nm, j)
      BY <2>3, <1>4, <1>7, <1>8, <1>11 DEF Link
    <3> QED BY <3>1, <2>1, <2>3, <1>10, SameLinks
  <2> QED BY <2>2, <2>3
<1>12. FindInDir(g)[d][name] = i
  <2>1. Link(g, d, name, i)
    BY <1>4, <1>7 DEF Link
  <2>2. i # NoIno /\ d # NoIno /\ d \in g.ibits
    <3>1. NoIno \notin f.ibits
      BY <1>2, <1>4, FoundType
    <3> QED BY <3>1, <1>1, <1>4, ValueAssumption
  <2> QED BY <2>1, <2>2, <1>2, <1>10, FindIsLink
<1>13. \A nm \in Name : FindInDir(g)[i][nm] = NoIno
  <2>1. \A nm, j : ~Link(g, i, nm, j)
    BY <1>6 DEF Link
  <2>2. i \in g.ibits
    BY <1>4
  <2> QED BY <2>1, <2>2, <1>10, NoLinks
<1>14. ASSUME NEW q \in Paths, q # p PROVE FindInode(g, q) = FindInode(f, q)
  <2>1. \A nm \in Name : FindInDir(f)[FindInode(f, p)][nm] = NoIno
    BY <1>3, NoneInNone
  <2>2. d = FindInode(f, Parent(p)) /\ name = Filename(p)
    BY DEF d, name
  <2> QED BY <2>1, <2>2, <1>11, <1>12, <1>13, <1>14, FoundElsewhere
<1>15. Only(f, g, p)
  <2>1. ASSUME NEW e \in f.ibits
        PROVE  /\ e \in g.ibits
               /\ SameInode(f, g, e) \/ (f.inodes[e].dir = TRUE /\ g.inodes[e].dir = TRUE)
    <3>1. CASE e = d
      BY <3>1, <1>1, <1>4
    <3>2. CASE e # d
      BY <3>2, <1>4
    <3> QED BY <3>1, <3>2
  <2>2. ASSUME NEW q \in Paths, q # p PROVE TreeOf(g)[q] = TreeOf(f)[q]
    <3>1. FindInode(g, q) = FindInode(f, q)
      BY <2>2, <1>14
    <3>2. Beside(f, g, p)
      BY <2>1 DEF Beside
    <3> QED BY <2>2, <3>1, <3>2, <1>4, TreeElsewhere
  <2> QED BY <2>2 DEF Only
<1>16. TreeOf(f)[p] = None /\ TreeOf(f)[Parent(p)] = Dir
  <2>1. TreeOf(f)[p] = None
    BY <1>3, <1>4, FoundType, TreeIs
  <2>2. d \in Ino \cup {NoIno}
    BY <1>1, <1>2, <1>4, FoundType
  <2> QED BY <2>1, <2>2, <1>1, <1>2, <1>4, TreeIs DEF d
<1>17. FindInode(g, p) = i
  <2>1. FindInode(g, Parent(p)) = d
    BY <1>2, <1>14 DEF d
  <2> QED BY <2>1, <1>12, StepLemma DEF name
<1>18. TreeOf(g)[p] \in {Dir, <<>>}
  <2>1. i \in g.ibits /\ i \in Ino \cup {NoIno}
    BY <1>4
  <2>2. Contents(g, i) = <<>>
    <3>1. 1 .. 0 = {}
      OBVIOUS
    <3> QED BY <3>1, <1>4 DEF Contents
  <2> QED BY <2>1, <2>2, <1>4, <1>17, TreeIs
<1> QED BY <1>10, <1>15, <1>16, <1>18

\* fisopfs_unlink() and fisopfs_rmdir(): path p is gone.
LEMMA UnlinkTree ==
  ASSUME NEW f, Tidy(f), NEW p \in Paths, NEW i, i = FindInode(f, p),
         i # NoIno, i # Root, f.inodes[i].dir => f.inodes[i].size = 0,
         NEW g, g = UnlinkInode(f, p, i)
  PROVE  /\ Tidy(g) /\ Only(f, g, p) /\ p # <<>>
         /\ TreeOf(g)[p] = None
         /\ \A q \in Paths : q # <<>> /\ Parent(q) = p => TreeOf(f)[q] = None
<1> DEFINE d == FindInode(f, Parent(p))
           name == Filename(p)
<1>1. p # <<>>
  BY RootPath
<1>2. Parent(p) \in Paths /\ name \in Name /\ Parent(p) # p /\ FindInDir(f)[d][name] = i
  BY <1>1, ShorterParent, StepLemma
<1>3. /\ InOrder(f) /\ NamesApart(f) /\ Good(f) /\ f \in DiskType /\ i \in f.ibits
      /\ f.ibits \subseteq Ino /\ NoIno \notin f.ibits
      /\ f.inodes[i].size \in Nat /\ f.inodes[i].dir \in BOOLEAN
      /\ i \in Ino \cup {NoIno}
  BY FoundType DEF Tidy, InOrder, Good
<1>4. /\ InOrder(g) /\ d \in f.ibits /\ f.inodes[d].dir = TRUE
      /\ (\E n : Entry(f, d, n) /\ CellAt(f, d, n) = <<name, i>>) =>
           \E k : /\ Entry(f, d, k) /\ CellAt(f, d, k) = <<name, i>>
                  /\ i # d /\ Unlinked(f, g, d, k, i)
  BY <1>3, UnlinkLemma
<1> HIDE DEF d, name
<1>5. f.inodes[d].size \in Nat
  BY <1>3, <1>4, InodeType
<1>6. PICK n : Entry(f, d, n) /\ CellAt(f, d, n) = <<name, i>>
  <2>1. Link(f, d, name, i)
    BY <1>2, <1>4, FindIsLink
  <2>2. PICK n : Entry(f, d, n) /\ CellAt(f, d, n)[1] = name /\ CellAt(f, d, n)[2] = i
    BY <2>1 DEF Link
  <2>3. CellAt(f, d, n) \in Name \X Ino
    BY <2>2, <1>3, <1>4 DEF Entry, Good, Whole, Holds, Kind
  <2>4. CellAt(f, d, n) = <<name, i>>
    BY <2>2, <2>3
  <2> QED BY <2>2, <2>4
<1>7. PICK k : /\ Entry(f, d, k) /\ CellAt(f, d, k) = <<name, i>>
               /\ i # d /\ Unlinked(f, g, d, k, i)
  BY <1>4, <1>6
<1>8. /\ k \in 0 .. (f.inodes[d].size - 1) /\ CellAt(f, d, k)[1] = name
      /\ g.ibits = f.ibits \ {i} /\ d \in g.ibits /\ i \notin g.ibits
      /\ g.inodes[d].dir = TRUE /\ g.inodes[d].size = f.inodes[d].size - 1
      /\ \A m \in 0 .. (f.inodes[d].size - 2) :
           CellAt(g, d, m) = CellAt(f, d, IF m < k THEN m ELSE m + 1)
      /\ \A j \in f.ibits \ {d, i} : SameInode(f, g, j)
  BY <1>4, <1>7 DEF Entry, Unlinked
<1> DEFINE up(m) == IF m < k THEN m ELSE m + 1
<1>9. ASSUME NEW m, Entry(g, d, m)
      PROVE  /\ m \in Int /\ Entry(f, d, up(m)) /\ up(m) # k
             /\ CellAt(g, d, m) = CellAt(f, d, up(m))
  <2>1. m \in 0 .. (f.inodes[d].size - 2)
    BY <1>5, <1>8, <1>9 DEF Entry
  <2>2. m \in Int /\ k \in Int /\ up(m) \in 0 .. (f.inodes[d].size - 1) /\ up(m) # k
    BY <2>1, <1>5, <1>8
  <2> QED BY <2>1, <2>2, <1>4, <1>8 DEF Entry
<1>10. ASSUME NEW m, Entry(f, d, m), m # k
       PROVE  \E x : Entry(g, d, x) /\ CellAt(g, d, x) = CellAt(f, d, m)
  <2> DEFINE x == IF m < k THEN m ELSE m - 1
  <2>1. m \in 0 .. (f.inodes[d].size - 1)
    BY <1>10 DEF Entry
  <2>2. x \in 0 .. (f.inodes[d].size - 2) /\ x \in 0 .. (g.inodes[d].size - 1)
        /\ m = IF x < k THEN x ELSE x + 1
    BY <2>1, <1>5, <1>8, <1>10
  <2> HIDE DEF x
  <2>3. Entry(g, d, x)
    BY <2>2, <1>8 DEF Entry
  <2> QED BY <2>2, <2>3, <1>8
<1>11. \A m : Entry(f, d, m) /\ CellAt(f, d, m)[1] = name => m = k
  BY <1>3, <1>7, <1>8 DEF NamesApart
<1>12. NamesApart(g)
  <2> SUFFICES ASSUME NEW e, NEW x, NEW y, Entry(g, e, x), Entry(g, e, y),
                      CellAt(g, e, x)[1] = CellAt(g, e, y)[1]
               PROVE  x = y
    BY DEF NamesApart
  <2>1. e \in f.ibits /\ e \in g.ibits /\ e # i
    BY <1>8 DEF Entry
  <2>2. CASE e # d
    <3>1. SameInode(f, g, e)
      BY <2>1, <2>2, <1>8
    <3> QED BY <3>1, <2>1, <1>3, SameEntries DEF NamesApart
  <2>3. CASE e = d
    <3>1. up(x) = up(y)
      BY <2>3, <1>3, <1>9 DEF NamesApart
    <3>2. x \in Int /\ y \in Int /\ k \in Int
      BY <2>3, <1>8, <1>9
    <3> QED BY <3>1, <3>2
  <2> QED BY <2>2, <2>3
<1>13. Tidy(g)
  BY <1>4, <1>12 DEF Tidy
<1>14. ASSUME NEW e \in f.ibits, NEW nm \in Name, e # i, e # d \/ nm # name
       PROVE  FindInDir(g)[e][nm] = FindInDir(f)[e][nm]
  <2>1. e \in g.ibits
    BY <1>8, <1>14
  <2>2. CASE e # d
    <3>1. SameInode(f, g, e)
      BY <2>2, <1>8, <1>14
    <3> QED BY <3>1, <2>1, <1>13, SameEntries, SameLinks
  <2>3. CASE e = d
    <3>1. ASSUME NEW j, Link(g, d, nm, j) PROVE Link(f, d, nm, j)
      BY <3>1, <1>9 DEF Link
    <3>2. ASSUME NEW j, Link(f, d, nm, j) PROVE Link(g, d, nm, j)
      <4>1. PICK m : Entry(f, d, m) /\ CellAt(f, d, m)[1] = nm /\ CellAt(f, d, m)[2] = j
        BY <3>2 DEF Link
      <4>2. m # k
        BY <4>1, <2>3, <1>8, <1>14
      <4> QED BY <4>1, <4>2, <1>10 DEF Link
    <3> QED BY <3>1, <3>2, <2>1, <2>3, <1>13, SameLinks
  <2> QED BY <2>2, <2>3
<1>15. FindInDir(g)[d][name] = NoIno
  <2>1. ASSUME NEW j, Link(g, d, name, j) PROVE FALSE
    <3>1. PICK m : Entry(g, d, m) /\ CellAt(g, d, m)[1] = name
      BY <2>1 DEF Link
    <3>2. Entry(f, d, up(m)) /\ up(m) # k /\ CellAt(f, d, up(m))[1] = name
      BY <3>1, <1>9
    <3> HIDE DEF up
    <3> QED BY <3>2, <1>11
  <2> QED BY <2>1, <1>2, <1>8, <1>13, NoLinks
<1>16. \A nm \in Name : FindInDir(f)[i][nm] = NoIno
  <2>1. CASE ~f.inodes[i].dir
    BY <2>1, <1>3, NoneInNone
  <2>2. CASE f.inodes[i].dir
    <3>1. \A nm, j : ~Link(f, i, nm, j)
      <4>1. \A m : ~Entry(f, i, m)
        <5>1. f.inodes[i].size = 0
          BY <2>2
        <5> QED BY <5>1 DEF Entry
      <4> QED BY <4>1 DEF Link
    <3> QED BY <3>1, <1>3, NoLinks
  <2> QED BY <2>1, <2>2
<1>17. ASSUME NEW q \in Paths, q # p PROVE FindInode(g, q) = FindInode(f, q)
  <2>1. \A nm \in Name : FindInDir(g)[FindInDir(g)[d][name]][nm] = NoIno
    BY <1>15, NoneInNone
  <2>2. d = FindInode(f, Parent(p)) /\ name = Filename(p)
    BY DEF d, name
  <2>3. \A e \in f.ibits, nm \in Name :
          e # FindInode(f, p) /\ (e # d \/ nm # Filename(p)) =>
            FindInDir(g)[e][nm] = FindInDir(f)[e][nm]
    BY <2>2, <1>14
  <2>4. /\ \A nm \in Name : FindInDir(f)[FindInode(f, p)][nm] = NoIno
        /\ \A nm \in Name : FindInDir(g)[FindInDir(g)[d][Filename(p)]][nm] = NoIno
    BY <2>1, <2>2, <1>16
  <2> QED BY <2>2, <2>3, <2>4, <1>1, <1>17, FoundElsewhere
<1>18. Only(f, g, p)
  <2>1. ASSUME NEW e \in f.ibits, e # i
        PROVE  /\ e \in g.ibits
               /\ SameInode(f, g, e) \/ (f.inodes[e].dir = TRUE /\ g.inodes[e].dir = TRUE)
    <3>1. CASE e = d
      BY <3>1, <1>4, <1>8
    <3>2. CASE e # d
      BY <3>2, <2>1, <1>8
    <3> QED BY <3>1, <3>2
  <2>2. Beside(f, g, p) /\ Good(g)
    BY <2>1, <1>4 DEF Beside, InOrder
  <2>3. ASSUME NEW q \in Paths, q # p PROVE TreeOf(g)[q] = TreeOf(f)[q]
    <3>1. FindInode(g, q) = FindInode(f, q)
      BY <2>3, <1>17
    <3> QED BY <2>2, <2>3, <3>1, TreeElsewhere
  <2> QED BY <2>3 DEF Only
<1>19. TreeOf(g)[p] = None
  <2>1. FindInode(g, Parent(p)) = d
    BY <1>2, <1>17 DEF d
  <2>2. FindInode(g, p) = NoIno
    BY <2>1, <1>1, <1>15, StepLemma DEF name
  <2> QED BY <2>2, <1>4, FoundType, TreeIs DEF InOrder
<1>20. ASSUME NEW q \in Paths, q # <<>>, Parent(q) = p PROVE TreeOf(f)[q] = None
  <2>1. FindInode(f, q) = NoIno
    BY <1>16, <1>20, StepLemma, ShorterParent
  <2> QED BY <2>1, <1>3, TreeIs
<1> QED BY <1>1, <1>13, <1>18, <1>19, <1>20

LEMMA ContentsType ==
  ASSUME NEW f, Good(f), NEW i \in f.ibits, ~f.inodes[i].dir
  PROVE  /\ Contents(f, i) \in Seq(Byte) /\ Len(Contents(f, i)) = f.inodes[i].size
         /\ f.inodes[i].size \in Nat
         /\ \A m \in 1 .. f.inodes[i].size : Contents(f, i)[m] = CellAt(f, i, m - 1)
<1> DEFINE size == f.inodes[i].size
<1>1. f \in DiskType /\ i \in Ino
  BY TypeFields DEF Good
<1>2. size \in Nat
  BY <1>1, InodeType
<1>3. \A m \in 0 .. (size - 1) : CellAt(f, i, m) \in Byte
  BY DEF Good, Whole, Holds, Kind
<1> HIDE DEF size
<1>4. ASSUME NEW m \in 1 .. size PROVE CellAt(f, i, m - 1) \in Byte
  BY <1>2, <1>3
<1>5. Contents(f, i) = [m \in 1 .. size |-> CellAt(f, i, m - 1)]
  BY DEF Contents, size
<1>6. Contents(f, i) \in Seq(Byte) /\ Len(Contents(f, i)) = size
  BY <1>2, <1>4, <1>5
<1> QED BY <1>2, <1>5, <1>6 DEF size

\* write_file() and shrink_file() show at the path of the file alone.
LEMMA FileTreeStep ==
  ASSUME NEW f, Tidy(f), NEW p \in Paths, NEW i, i = FindInode(f, p), i # NoIno,
         ~f.inodes[i].dir, NEW g, Good(g), OnlyThat(f, g, i)
  PROVE  /\ Tidy(g) /\ Only(f, g, p) /\ p # <<>>
         /\ TreeOf(f)[p] = Contents(f, i) /\ TreeOf(g)[p] = Contents(g, i)
<1>1. /\ InOrder(f) /\ NamesApart(f) /\ Good(f) /\ i \in f.ibits /\ f.ibits \subseteq Ino
      /\ f.inodes[i].dir = FALSE
  <2>1. InOrder(f) /\ NamesApart(f) /\ Good(f)
    BY DEF Tidy, InOrder
  <2> QED BY <2>1, FoundType
<1>2. /\ g.ibits = f.ibits /\ g.inodes[i].dir = FALSE
      /\ \A j \in f.ibits \ {i} : SameInode(f, g, j)
  BY <1>1 DEF OnlyThat, SameInode
<1>3. InOrder(g)
  BY <1>1, FileLemma
<1>4. (\A n : ~Entry(f, i, n)) /\ (\A n : ~Entry(g, i, n))
  BY <1>1, <1>2 DEF Entry
<1>5. NamesApart(g)
  <2> SUFFICES ASSUME NEW e, NEW x, NEW y, Entry(g, e, x), Entry(g, e, y),
                      CellAt(g, e, x)[1] = CellAt(g, e, y)[1]
               PROVE  x = y
    BY DEF NamesApart
  <2>1. e # i /\ e \in g.ibits
    BY <1>4 DEF Entry
  <2>2. e \in f.ibits /\ SameInode(f, g, e)
    BY <2>1, <1>2
  <2> QED BY <2>1, <2>2, <1>1, SameEntries DEF NamesApart
<1>6. Tidy(g)
  BY <1>3, <1>5 DEF Tidy
<1>7. p # <<>>
  <2>1. f.inodes[Root].dir = TRUE
    BY <1>1 DEF InOrder, NamedAs
  <2> QED BY <2>1, RootPath
<1>8. ASSUME NEW e \in f.ibits, NEW nm \in Name PROVE FindInDir(g)[e][nm] = FindInDir(f)[e][nm]
  <2>1. \A j : Link(g, e, nm, j) <=> Link(f, e, nm, j)
    <3>1. CASE e = i
      BY <3>1, <1>4 DEF Link
    <3>2. CASE e # i
      BY <3>2, <1>2, SameEntries
    <3> QED BY <3>1, <3>2
  <2>2. e \in g.ibits
    BY <1>2
  <2> QED BY <2>1, <2>2, <1>6, SameLinks
<1>9. \A nm \in Name : FindInDir(f)[i][nm] = NoIno
  BY <1>1, NoneInNone
<1>10. \A nm \in Name : FindInDir(g)[i][nm] = NoIno
  BY <1>1, <1>2, NoneInNone
<1>11. FindInDir(f)[FindInode(f, Parent(p))][Filename(p)] = i
  BY <1>7, StepLemma
<1>12. Parent(p) \in Paths /\ Filename(p) \in Name /\ Parent(p) # p
  BY <1>7, ShorterParent
<1>13. FindInode(f, Parent(p)) \in f.ibits
  <2>1. FindInode(f, Parent(p)) \in f.ibits \cup {NoIno}
    BY <1>1, <1>12, InOrderFinds
  <2>2. FindInode(f, Parent(p)) # NoIno
    BY <2>1, <1>11, <1>12, FindIsLink
  <2> QED BY <2>1, <2>2
<1>14. FindInDir(g)[FindInode(f, Parent(p))][Filename(p)] = i
  BY <1>8, <1>11, <1>12, <1>13
<1>15. ASSUME NEW q \in Paths, q # p PROVE FindInode(g, q) = FindInode(f, q)
  <2> DEFINE d == FindInode(f, Parent(p))
  <2>1. /\ d = FindInode(f, Parent(p)) /\ FindInDir(g)[d][Filename(p)] = i
    BY <1>14
  <2>2. /\ \A nm \in Name : FindInDir(f)[FindInode(f, p)][nm] = NoIno
        /\ \A nm \in Name : FindInDir(g)[FindInDir(g)[d][Filename(p)]][nm] = NoIno
    BY <2>1, <1>9, <1>10
  <2> HIDE DEF d
  <2> QED BY <2>1, <2>2, <1>7, <1>8, <1>15, FoundElsewhere
<1>16. Only(f, g, p)
  <2>1. Beside(f, g, p)
    BY <1>2 DEF Beside
  <2>2. ASSUME NEW q \in Paths, q # p PROVE TreeOf(g)[q] = TreeOf(f)[q]
    BY <2>1, <2>2, <1>15, TreeElsewhere
  <2> QED BY <2>2 DEF Only
<1>17. FindInode(g, p) = i
  <2>1. FindInode(g, Parent(p)) = FindInode(f, Parent(p))
    BY <1>12, <1>15
  <2> QED BY <2>1, <1>7, <1>14, StepLemma
<1>18. TreeOf(f)[p] = Contents(f, i) /\ TreeOf(g)[p] = Contents(g, i)
  <2>1. i \in Ino \cup {NoIno}
    BY <1>1
  <2> QED BY <2>1, <1>1, <1>2, <1>17, TreeIs
<1> QED BY <1>6, <1>7, <1>16, <1>18

LEMMA Joined ==
  ASSUME NEW S, NEW x \in Seq(S), NEW y \in Seq(S), NEW a \in Nat, a = Len(x), NEW b \in Nat, b = Len(y)
  PROVE  /\ x \o y \in Seq(S) /\ Len(x \o y) = a + b
         /\ \A m \in 1 .. a : (x \o y)[m] = x[m]
         /\ \A m \in 1 .. b : (x \o y)[a + m] = y[m]
<1>1. /\ x \o y \in Seq(S) /\ Len(x \o y) = Len(x) + Len(y)
      /\ \A m \in 1 .. Len(x) + Len(y) : (x \o y)[m] = IF m <= Len(x) THEN x[m] ELSE y[m - Len(x)]
  BY ConcatProperties
<1>2. \A m \in 1 .. a + b : (x \o y)[m] = IF m <= a THEN x[m] ELSE y[m - a]
  BY <1>1
<1>3. ASSUME NEW m \in 1 .. a PROVE (x \o y)[m] = x[m]
  BY <1>2
<1>4. ASSUME NEW m \in 1 .. b PROVE (x \o y)[a + m] = y[m]
  <2>1. a + m \in 1 .. a + b /\ ~(a + m <= a) /\ a + m - a = m
    OBVIOUS
  <2> QED BY <1>2, <2>1
<1> QED BY <1>1, <1>3, <1>4

\* Sequence t is x, y and z after each other.
Parts(t, x, y, z) ==
  /\ Len(t) = Len(x) + Len(y) + Len(z)
  /\ \A m \in 1 .. Len(x) : t[m] = x[m]
  /\ \A m \in 1 .. Len(y) : t[Len(x) + m] = y[m]
  /\ \A m \in 1 .. Len(z) : t[Len(x) + Len(y) + m] = z[m]

LEMMA JoinedThree ==
  ASSUME NEW S, NEW x \in Seq(S), NEW y \in Seq(S), NEW z \in Seq(S)
  PROVE  x \o y \o z \in Seq(S) /\ Parts(x \o y \o z, x, y, z)
<1> DEFINE a == Len(x)
           b == Len(y)
           c == Len(z)
           s == x \o y
           t == s \o z
           e == a + b
<1>0. a \in Nat /\ b \in Nat /\ c \in Nat /\ e \in Nat
  BY LenProperties
<1>1. /\ s \in Seq(S) /\ Len(s) = e
      /\ \A m \in 1 .. a : s[m] = x[m]
      /\ \A m \in 1 .. b : s[a + m] = y[m]
  <2> HIDE DEF e
  <2>1. a = Len(x) /\ b = Len(y) /\ a \in Nat /\ b \in Nat
    BY <1>0
  <2> HIDE DEF a, b
  <2>2. /\ s \in Seq(S) /\ Len(s) = a + b
        /\ \A m \in 1 .. a : s[m] = x[m]
        /\ \A m \in 1 .. b : s[a + m] = y[m]
    BY <2>1, Joined
  <2> QED BY <2>2 DEF e
<1>5. e = Len(s) /\ s \in Seq(S) /\ c = Len(z)
  BY <1>1
<1> HIDE DEF s, e, a, b, c
<1>2. /\ t \in Seq(S) /\ Len(t) = e + c
      /\ \A m \in 1 .. e : t[m] = s[m]
      /\ \A m \in 1 .. c : t[e + m] = z[m]
  BY <1>0, <1>5, Joined
<1> HIDE DEF t
<1>3. ASSUME NEW m \in 1 .. a PROVE t[m] = x[m]
  BY <1>0, <1>1, <1>2 DEF e
<1>4. ASSUME NEW m \in 1 .. b PROVE t[a + m] = y[m]
  BY <1>0, <1>1, <1>2 DEF e
<1> QED BY <1>2, <1>3, <1>4 DEF s, t, e, a, b, c, Parts

\* The first k bytes of a buffer in place of those from offset on, and beyond the end.
Patch(c, buf, offset, k) ==
  SubSeq(c, 1, offset) \o SubSeq(buf, 1, k) \o SubSeq(c, offset + k + 1, Len(c))

\* In d, the k bytes from offset on are those of the buffer, and the others those of c.
Patched(d, c, buf, offset, k) ==
  /\ c \in Seq(Byte) /\ d \in Seq(Byte) /\ buf \in Seq(Byte)
  /\ offset \in Nat /\ offset <= Len(c) /\ k \in 0 .. Len(buf)
  /\ Len(d) = Larger(Len(c), offset + k)
  /\ \A m \in 1 .. Len(d) :
       d[m] = IF m - 1 \in offset .. (offset + k - 1) THEN buf[m - 1 - offset + 1] ELSE c[m]

LEMMA Spliced ==
  ASSUME NEW d, NEW c, NEW buf, NEW offset, NEW k, Patched(d, c, buf, offset, k)
  PROVE  d = Patch(c, buf, offset, k)
<1> DEFINE x == SubSeq(c, 1, offset)
           y == SubSeq(buf, 1, k)
           z == SubSeq(c, offset + k + 1, Len(c))
<1>0. /\ c \in Seq(Byte) /\ d \in Seq(Byte) /\ buf \in Seq(Byte)
      /\ offset \in Nat /\ offset <= Len(c) /\ k \in 0 .. Len(buf)
      /\ Len(d) = Larger(Len(c), offset + k)
  BY DEF Patched
<1>1. Len(c) \in Nat /\ Len(buf) \in Nat /\ k \in Nat /\ k <= Len(buf) /\ Len(d) \in Nat
  BY <1>0, LenProperties
<1>2. x \in Seq(Byte) /\ Len(x) = offset /\ \A m \in 1 .. offset : x[m] = c[m]
  BY <1>0, <1>1, SubSeqProperties
<1>3. y \in Seq(Byte) /\ Len(y) = k /\ \A m \in 1 .. k : y[m] = buf[m]
  BY <1>0, <1>1, SubSeqProperties
<1>4. /\ z \in Seq(Byte)
      /\ Len(z) = IF offset + k + 1 <= Len(c) THEN Len(c) - offset - k ELSE 0
      /\ \A m \in 1 .. Len(z) : z[m] = c[offset + k + m]
  BY <1>0, <1>1, SubSeqProperties
<1> HIDE DEF x, y, z
<1> DEFINE n == Len(c)
           l == Len(z)
           e == offset + k
<1>5. n \in Nat /\ l \in Nat /\ e \in Nat /\ Len(d) = Larger(n, e) /\ Len(d) \in Nat
      /\ l = (IF e + 1 <= n THEN n - offset - k ELSE 0) /\ offset <= n
  <2>1. l \in Nat
    BY <1>4, LenProperties
  <2>2. l = IF e + 1 <= n THEN n - offset - k ELSE 0
    BY <1>4
  <2> QED BY <2>1, <2>2, <1>0, <1>1
<1> HIDE DEF n, l
<1>10. Len(d) = offset + k + l
  <2>1. /\ n \in Nat /\ l \in Nat /\ k \in Nat /\ offset <= n
        /\ (offset + k + 1 <= n => l = n - offset - k) /\ (n <= offset + k => l = 0)
    BY <1>0, <1>1, <1>5
  <2>2. e = offset + k
    OBVIOUS
  <2>3. Len(d) = Larger(n, e)
    BY <1>5
  <2> HIDE DEF e
  <2>4. Larger(n, e) = offset + k + l
    <3>1. CASE e + 1 <= n
      BY <3>1, <2>1, <2>2, <1>0 DEF Larger
    <3>2. CASE n <= e
      BY <3>2, <2>1, <2>2, <1>0 DEF Larger
    <3>3. e + 1 <= n \/ n <= e
      BY <1>5
    <3> QED BY <3>1, <3>2, <3>3
  <2> QED BY <2>3, <2>4
<1>7. /\ x \o y \o z \in Seq(Byte) /\ Len(x \o y \o z) = offset + k + l
      /\ \A m \in 1 .. offset : (x \o y \o z)[m] = x[m]
      /\ \A m \in 1 .. k : (x \o y \o z)[offset + m] = y[m]
      /\ \A m \in 1 .. l : (x \o y \o z)[offset + k + m] = z[m]
  <2>1. /\ l = Len(z) /\ k = Len(y) /\ offset = Len(x) /\ l \in Nat /\ k \in Nat
        /\ x \in Seq(Byte) /\ y \in Seq(Byte) /\ z \in Seq(Byte)
    BY <1>0, <1>1, <1>2, <1>3, <1>4, <1>5 DEF l
  <2>2. x \o y \o z \in Seq(Byte) /\ Parts(x \o y \o z, x, y, z)
    BY <2>1, JoinedThree
  <2> QED BY <2>1, <2>2 DEF Parts
<1> DEFINE t == x \o y \o z
<1> HIDE DEF t
<1>8. ASSUME NEW m \in 1 .. Len(d),
             d[m] = IF m - 1 \in offset .. (offset + k - 1) THEN buf[m - 1 - offset + 1] ELSE c[m]
      PROVE  d[m] = t[m]
  <2>1. m \in Int /\ m \in 1 .. (offset + k + l)
    BY <1>0, <1>1, <1>5, <1>10
  <2>2. CASE m <= offset
    <3>1. m \in 1 .. offset /\ m \in 1 .. (offset + k) /\ m - 1 \notin offset .. (offset + k - 1)
      BY <2>1, <2>2, <1>0, <1>1
    <3>2. d[m] = c[m]
      BY <3>1, <1>8
    <3> QED BY <3>1, <3>2, <1>2, <1>7 DEF t
  <2>3. CASE offset < m /\ m <= offset + k
    <3> DEFINE j == m - offset
    <3>1. j \in 1 .. k /\ m = offset + j /\ m - 1 - offset + 1 = j
          /\ m - 1 \in offset .. (offset + k - 1) /\ m \in 1 .. (offset + k)
      BY <2>1, <2>3, <1>0, <1>1
    <3> HIDE DEF j
    <3>2. d[m] = buf[j]
      BY <3>1, <1>8
    <3>3. t[m] = y[j]
      BY <3>1, <1>7 DEF t
    <3> QED BY <3>1, <3>2, <3>3, <1>3
  <2>4. CASE offset + k < m
    <3> DEFINE j == m - (offset + k)
    <3>1. j \in 1 .. l /\ m = offset + k + j /\ m - 1 \notin offset .. (offset + k - 1)
      BY <2>1, <2>4, <1>0, <1>1, <1>5
    <3> HIDE DEF j
    <3>2. z[j] = c[offset + k + j]
      BY <3>1, <1>4 DEF l
    <3>3. t[offset + k + j] = z[j]
      BY <3>1, <1>7 DEF t
    <3>4. d[m] = c[m]
      BY <3>1, <1>8
    <3> QED BY <3>1, <3>2, <3>3, <3>4
  <2>5. m <= offset \/ (offset < m /\ m <= offset + k) \/ offset + k < m
    BY <2>1, <1>0, <1>1
  <2> QED BY <2>2, <2>3, <2>4, <2>5
<1>9. t = d
  <2>1. \A m \in 1 .. Len(d) : d[m] = t[m]
    BY <1>8 DEF Patched
  <2> QED BY <2>1, <1>0, <1>7, <1>10, SeqEqual DEF t
<1> QED BY <1>9 DEF t, x, y, z, Patch

Rewritten(c, d, buf, offset) ==
  \E k \in 0 .. Len(buf) :
    Len(d) = Larger(Len(c), offset + k) /\ d = Patch(c, buf, offset, k)

\* What write_file() makes of the bytes of a file.
LEMMA Wrote ==
  ASSUME NEW f, Good(f), NEW g, Good(g), NEW i \in f.ibits, i \in g.ibits,
         ~f.inodes[i].dir, ~g.inodes[i].dir, NEW buf \in Seq(Byte), NEW offset \in Nat,
         offset <= f.inodes[i].size, WroteIn(f, g, i, buf, offset)
  PROVE  Rewritten(Contents(f, i), Contents(g, i), buf, offset)
<1> DEFINE c == Contents(f, i)
           d == Contents(g, i)
           old == f.inodes[i].size
           new == g.inodes[i].size
<1>1. /\ c \in Seq(Byte) /\ Len(c) = old /\ old \in Nat
      /\ \A m \in 1 .. old : c[m] = CellAt(f, i, m - 1)
  BY ContentsType
<1>2. /\ d \in Seq(Byte) /\ Len(d) = new /\ new \in Nat
      /\ \A m \in 1 .. new : d[m] = CellAt(g, i, m - 1)
  BY ContentsType
<1>3. PICK k \in 0 .. Len(buf) :
        /\ new = Larger(old, offset + k)
        /\ \A m \in 0 .. (new - 1) :
             CellAt(g, i, m) = IF m \in offset .. (offset + k - 1) THEN buf[m - offset + 1]
                               ELSE CellAt(f, i, m)
  BY DEF WroteIn
<1>4. k \in Nat /\ offset <= old
  BY LenProperties
<1> HIDE DEF c, d, old, new
<1>5. ASSUME NEW m \in 1 .. new
      PROVE  d[m] = IF m - 1 \in offset .. (offset + k - 1) THEN buf[m - 1 - offset + 1] ELSE c[m]
  <2> DEFINE x == m - 1
  <2>1. x \in 0 .. (new - 1) /\ x \in Nat /\ m = x + 1
    BY <1>2
  <2>2. d[m] = CellAt(g, i, x)
    BY <1>2
  <2>3. CASE x \in offset .. (offset + k - 1)
    <3> HIDE DEF x
    <3>1. CellAt(g, i, x) = buf[x - offset + 1]
      BY <2>1, <2>3, <1>3
    <3> QED BY <3>1, <2>2, <2>3 DEF x
  <2>4. CASE x \notin offset .. (offset + k - 1)
    <3>1. m \in 1 .. old
      <4> HIDE DEF x
      <4>1. ~(offset <= x) \/ ~(x <= offset + k - 1)
        BY <2>1, <2>4, <1>4
      <4>2. CASE old >= offset + k
        BY <4>2, <1>1, <1>3, <1>4 DEF Larger
      <4>3. CASE ~(old >= offset + k)
        <5>1. new = offset + k
          BY <4>3, <1>3 DEF Larger
        <5>2. x < offset
          BY <5>1, <4>1, <2>1, <1>4
        <5> QED BY <5>2, <2>1, <1>1, <1>4
      <4> QED BY <4>2, <4>3
    <3>2. c[m] = CellAt(f, i, x)
      BY <3>1, <1>1
    <3> HIDE DEF x
    <3>3. CellAt(g, i, x) = CellAt(f, i, x)
      BY <2>1, <2>4, <1>3
    <3> QED BY <3>2, <3>3, <2>2, <2>4 DEF x
  <2> QED BY <2>3, <2>4
<1>6. Len(d) = Larger(Len(c), offset + k)
  BY <1>1, <1>2, <1>3
<1>7. Patched(d, c, buf, offset, k)
  BY <1>1, <1>2, <1>4, <1>5, <1>6 DEF Patched
<1>8. d = Patch(c, buf, offset, k)
  BY <1>7, Spliced
<1> QED BY <1>6, <1>8 DEF c, d, Rewritten

LEMMA NewContents ==
  ASSUME NEW f, Tidy(f), NEW p \in Paths, NEW i, i = FindInode(f, p), i # NoIno,
         ~f.inodes[i].dir
  PROVE  /\ InOrder(f) /\ Good(f) /\ i \in f.ibits
         /\ Contents(f, i) \in Seq(Byte) /\ Len(Contents(f, i)) = f.inodes[i].size
         /\ f.inodes[i].size \in Nat
<1>1. InOrder(f) /\ Good(f) /\ i \in f.ibits
  BY FoundType DEF Tidy, InOrder
<1> QED BY <1>1, ContentsType

\* fisopfs_write(): path p has bytes of the buffer in place of those it had.
LEMMA WriteTree ==
  ASSUME NEW f, Tidy(f), NEW p \in Paths, NEW i, i = FindInode(f, p), i # NoIno,
         ~f.inodes[i].dir, NEW buf \in Buffers, buf # <<>>, NEW offset \in Offsets,
         offset <= f.inodes[i].size, offset + Len(buf) <= MaxSize,
         NEW g, g = WriteFile(f, i, buf, offset)
  PROVE  /\ Tidy(g) /\ Only(f, g, p) /\ p # <<>>
         /\ TreeOf(f)[p] \in Seq(Byte) /\ TreeOf(g)[p] \in Seq(Byte)
         /\ T!Written(TreeOf(f)[p], TreeOf(g)[p])
<1>1. buf \in Seq(Byte) /\ offset \in Nat
  BY DiskAssumption
<1>2. /\ Good(f) /\ i \in f.ibits /\ Contents(f, i) \in Seq(Byte)
      /\ Len(Contents(f, i)) = f.inodes[i].size
  BY NewContents
<1>3. Good(g) /\ OnlyThat(f, g, i) /\ WroteIn(f, g, i, buf, offset)
  BY <1>1, <1>2, WriteLemma
<1>4. /\ Tidy(g) /\ Only(f, g, p) /\ p # <<>>
      /\ TreeOf(f)[p] = Contents(f, i) /\ TreeOf(g)[p] = Contents(g, i)
  BY <1>3, FileTreeStep
<1>5. i \in g.ibits /\ ~g.inodes[i].dir
  BY <1>2, <1>3 DEF OnlyThat
<1>6. Contents(g, i) \in Seq(Byte)
  BY <1>3, <1>5, ContentsType
<1>7. PICK k \in 0 .. Len(buf) : Contents(g, i) = Patch(Contents(f, i), buf, offset, k)
  BY <1>1, <1>2, <1>3, <1>5, Wrote DEF Rewritten
<1>8. T!Written(Contents(f, i), Contents(g, i))
  <2> DEFINE c == Contents(f, i)
             d == Contents(g, i)
  <2>1. /\ offset <= Len(c)
        /\ d = SubSeq(c, 1, offset) \o SubSeq(buf, 1, k) \o SubSeq(c, offset + k + 1, Len(c))
    BY <1>2, <1>7 DEF Patch
  <2> HIDE DEF c, d
  <2>2. T!Written(c, d)
    BY <2>1 DEF T!Written
  <2> QED BY <2>2 DEF c, d
<1> QED BY <1>2, <1>4, <1>6, <1>8

\* The end of a file and as many zeroes as there is room for.
LEMMA ZeroesAtEnd ==
  ASSUME NEW c \in Seq(Byte), NEW n \in Nat, NEW k \in 0 .. n, NEW size, size = Len(c)
  PROVE  Patch(c, [m \in 1 .. n |-> Zero], size, k) = c \o [m \in 1 .. k |-> Zero]
<1> DEFINE zeroes == [m \in 1 .. n |-> Zero]
<1>1. size \in Nat /\ Zero \in Byte
  BY LenProperties, DiskAssumption
<1>2. zeroes \in Seq(Byte) /\ Len(zeroes) = n
  BY <1>1
<1>3. SubSeq(c, 1, size) = c
  BY <1>1, SubSeqFull
<1>4. SubSeq(zeroes, 1, k) = [m \in 1 .. k |-> Zero]
  BY <1>1
<1>5. SubSeq(c, size + k + 1, Len(c)) = <<>>
  BY <1>1, SubSeqEmpty
<1>6. [m \in 1 .. k |-> Zero] \in Seq(Byte)
  BY <1>1
<1> DEFINE z == [m \in 1 .. k |-> Zero]
<1>7. Patch(c, zeroes, size, k) = c \o z \o <<>>
  <2> HIDE DEF zeroes, z
  <2> QED BY <1>3, <1>4, <1>5 DEF Patch, z
<1>8. c \o z \in Seq(Byte)
  BY <1>6, ConcatProperties
<1> HIDE DEF z, zeroes
<1> QED BY <1>7, <1>8, ConcatEmptySeq DEF z, zeroes

\* fisopfs_truncate(): path p is cut short, or has zeroes at its end.
LEMMA TruncateTree ==
  ASSUME NEW f, Tidy(f), NEW p \in Paths, NEW i, i = FindInode(f, p), i # NoIno,
         ~f.inodes[i].dir, NEW length \in Lengths, length <= MaxSize,
         NEW size, size = f.inodes[i].size, length # size,
         NEW g, g = IF length > size
                    THEN WriteFile(f, i, [m \in 1 .. (length - size) |-> Zero], size)
                    ELSE ShrinkFile(f, i, length)
  PROVE  /\ Tidy(g) /\ Only(f, g, p) /\ p # <<>>
         /\ TreeOf(f)[p] \in Seq(Byte) /\ TreeOf(g)[p] \in Seq(Byte)
         /\ T!Truncated(TreeOf(f)[p], TreeOf(g)[p])
<1> DEFINE c == Contents(f, i)
           d == Contents(g, i)
<1>1. length \in Nat /\ Zero \in Byte
  BY DiskAssumption
<1>2. Good(f) /\ i \in f.ibits /\ c \in Seq(Byte) /\ Len(c) = size /\ size \in Nat
  BY NewContents
<1>3. ASSUME Good(g), OnlyThat(f, g, i)
      PROVE  /\ Tidy(g) /\ Only(f, g, p) /\ p # <<>>
             /\ TreeOf(f)[p] = c /\ TreeOf(g)[p] = d
             /\ i \in g.ibits /\ ~g.inodes[i].dir
             /\ d \in Seq(Byte) /\ Len(d) = g.inodes[i].size
  <2>1. i \in g.ibits /\ ~g.inodes[i].dir
    BY <1>2, <1>3 DEF OnlyThat
  <2>2. d \in Seq(Byte) /\ Len(d) = g.inodes[i].size
    BY <2>1, <1>3, ContentsType
  <2> QED BY <2>1, <2>2, <1>3, FileTreeStep
<1>4. CASE length > size
  <2> DEFINE n == length - size
             zeroes == [m \in 1 .. n |-> Zero]
  <2>1. n \in Nat \ {0} /\ n = length - size
    BY <1>1, <1>2, <1>4
  <2>2. zeroes \in Seq(Byte) /\ Len(zeroes) = n
    <3> HIDE DEF n
    <3> QED BY <2>1, <1>1
  <2>3. g = WriteFile(f, i, zeroes, size)
    BY <1>4
  <2> HIDE DEF n, zeroes, c, d
  <2>4. zeroes # <<>> /\ size + Len(zeroes) <= MaxSize
    BY <2>1, <2>2, <1>1, <1>2, EmptySeq
  <2>5. size <= f.inodes[i].size
    BY <1>2
  <2>6. Good(g) /\ OnlyThat(f, g, i) /\ WroteIn(f, g, i, zeroes, size)
    BY <2>2, <2>3, <2>4, <2>5, <1>2, WriteLemma
  <2>7. PICK k \in 0 .. Len(zeroes) : Len(d) = Larger(Len(c), size + k) /\ d = Patch(c, zeroes, size, k)
    <3>1. i \in g.ibits /\ ~g.inodes[i].dir
      BY <2>6, <1>3
    <3>2. Rewritten(Contents(f, i), Contents(g, i), zeroes, size)
      BY <2>2, <2>5, <2>6, <3>1, <1>2, Wrote
    <3> QED BY <3>2 DEF c, d, Rewritten
  <2>8. k \in 0 .. n /\ Len(d) = size + k /\ k \in Nat
    BY <2>1, <2>2, <2>7, <1>2 DEF Larger
  <2>9. d = c \o [m \in 1 .. k |-> Zero]
    BY <2>1, <2>7, <2>8, <1>2, ZeroesAtEnd DEF zeroes
  <2>10. T!Truncated(c, d)
    <3>1. Len(d) - Len(c) = k
      BY <2>8, <1>2
    <3>2. size + k \in size .. length /\ ~(length < size)
      <4>1. k <= n /\ n = length - size /\ n \in Nat /\ k \in Nat /\ size \in Nat /\ length \in Nat
        BY <2>1, <2>8, <1>1, <1>2
      <4> HIDE DEF n
      <4> QED BY <4>1
    <3>3. Len(d) \in Len(c) .. length /\ ~(length < Len(c))
      BY <3>2, <2>8, <1>2
    <3> QED BY <3>1, <3>3, <2>9 DEF T!Truncated
  <2> QED BY <2>6, <2>10, <1>2, <1>3
<1>5. CASE ~(length > size)
  <2>1. g = ShrinkFile(f, i, length) /\ length < size
    BY <1>1, <1>2, <1>5
  <2>2. /\ Good(g) /\ OnlyThat(f, g, i) /\ g.inodes[i].size = length
        /\ \A m \in 0 .. (length - 1) : CellAt(g, i, m) = CellAt(f, i, m)
    BY <2>1, <1>1, <1>2, ShrinkLemma
  <2>3. d \in Seq(Byte) /\ Len(d) = length
    BY <2>2, <1>3
  <2>4. /\ \A m \in 1 .. size : c[m] = CellAt(f, i, m - 1)
        /\ \A m \in 1 .. length : d[m] = CellAt(g, i, m - 1)
    BY <2>2, <1>2, <1>3, ContentsType
  <2> HIDE DEF c, d
  <2>5. ASSUME NEW m \in 1 .. length PROVE d[m] = c[m]
    <3>1. m \in 1 .. size /\ m - 1 \in 0 .. (length - 1)
      BY <2>1, <1>1, <1>2
    <3> QED BY <3>1, <2>2, <2>4
  <2>6. d = SubSeq(c, 1, length)
    <3>1. /\ SubSeq(c, 1, length) \in Seq(Byte) /\ Len(SubSeq(c, 1, length)) = length
          /\ \A m \in 1 .. length : SubSeq(c, 1, length)[m] = c[m]
      BY <2>1, <1>1, <1>2, SubSeqProperties
    <3> QED BY <3>1, <2>3, <2>5, SeqEqual
  <2>7. T!Truncated(c, d)
    <3>1. length < Len(c)
      BY <2>1, <1>2
    <3> QED BY <3>1, <2>6 DEF T!Truncated
  <2> QED BY <2>2, <2>7, <1>2, <1>3
<1> QED BY <1>4, <1>5

-----------------------------------------------------------------------------
(* Every step is one of FileTree.                                           *)

LEMMA TreeFun == ASSUME NEW f PROVE TreeOf(f) = [p \in Paths |-> TreeOf(f)[p]]
BY DEF TreeOf

LEMMA SameTree ==
  ASSUME NEW f, NEW g, \A p \in Paths : TreeOf(g)[p] = TreeOf(f)[p]
  PROVE  TreeOf(g) = TreeOf(f)
<1>1. TreeOf(f) = [p \in Paths |-> TreeOf(f)[p]] /\ TreeOf(g) = [p \in Paths |-> TreeOf(g)[p]]
  BY TreeFun
<1> DEFINE s == TreeOf(f)
           t == TreeOf(g)
<1>2. s = [p \in Paths |-> s[p]] /\ t = [p \in Paths |-> t[p]] /\ \A p \in Paths : t[p] = s[p]
  BY <1>1
<1> HIDE DEF s, t
<1>3. t = s
  BY <1>2
<1> QED BY <1>3 DEF s, t

\* A handler that changes what one path names is a call.
LEMMA CallStep ==
  ASSUME status = "up", NEW p \in Paths, p # <<>>, NEW g, Only(fs, g, p), Change(g),
         \/ T!Added(TreeOf(fs), TreeOf(g), p) \/ T!Deleted(TreeOf(fs), TreeOf(g), p)
         \/ /\ TreeOf(fs)[p] \in Seq(Byte) /\ TreeOf(g)[p] \in Seq(Byte)
            /\ T!Written(TreeOf(fs)[p], TreeOf(g)[p]) \/ T!Truncated(TreeOf(fs)[p], TreeOf(g)[p])
  PROVE  [T!Next]_(T!vars)
<1> DEFINE old == TreeOf(fs)
           new == TreeOf(g)
           changed == {q \in Paths : new[q] # old[q]}
<1>1. /\ fs' = g /\ image' = image /\ imaged' = imaged /\ status' = status
      /\ TreeOf(fs)' = new /\ TreeOf(image)' = TreeOf(image)
  BY DEF Change
<1>2. CASE new[p] = old[p]
  <2>1. \A q \in Paths : new[q] = old[q]
    BY <1>2 DEF Only
  <2>2. new = old
    BY <2>1, SameTree
  <2> HIDE DEF old, new
  <2>3. UNCHANGED T!vars
    BY <2>2, <1>1 DEF T!vars, old, new
  <2> QED BY <2>3
<1>3. CASE new[p] # old[p]
  <2>1. changed = {p} /\ p \in changed \ {<<>>}
    BY <1>3 DEF Only
  <2>2. IF old[p] = None THEN T!Added(old, new, p)
        ELSE \/ T!Deleted(old, new, p)
             \/ /\ Dir \notin {old[p], new[p]} /\ new[p] # None
                /\ T!Written(old[p], new[p]) \/ T!Truncated(old[p], new[p])
    <3>1. CASE T!Added(old, new, p)
      BY <3>1 DEF T!Added
    <3>2. CASE T!Deleted(old, new, p)
      BY <3>2, <1>3 DEF T!Deleted
    <3>3. CASE /\ old[p] \in Seq(Byte) /\ new[p] \in Seq(Byte)
               /\ T!Written(old[p], new[p]) \/ T!Truncated(old[p], new[p])
      <4>1. old[p] # None /\ new[p] # None /\ Dir \notin {old[p], new[p]}
        BY <3>3, ValueAssumption
      <4> QED BY <4>1, <3>3
    <3> QED BY <3>1, <3>2, <3>3
  <2> HIDE DEF old, new
  <2>3. T!Call
    BY <2>1, <2>2, <1>1 DEF T!Call, old, new
  <2> QED BY <2>3 DEF T!Next
<1> QED BY <1>2, <1>3

\* The invariant, and that no directory has two entries with one name.
TreeInv ==
  /\ FsInv
  /\ status \in {"up", "saving", "leaving"} => Tidy(fs)
  /\ imaged = "whole" => Tidy(image)

LEMMA NowhereLemma == TreeOf(Zeroed) = T!Nowhere
<1>1. Good(Zeroed) /\ Zeroed.ibits = {}
  BY ZeroedLemma
<1>2. \A d \in Ino \cup {NoIno}, name \in Name : FindInDir(Zeroed)[d][name] = NoIno
  <2>1. \A d \in Ino : Zeroed.inodes[d].dir = FALSE
    BY DEF Zeroed, Unused
  <2> QED BY <2>1, NoneInNone
<1>3. ASSUME NEW q \in Paths PROVE FindInode(Zeroed, q) \in {Root, NoIno}
  <2> DEFINE F == {r \in Paths : FindInode(Zeroed, r) \notin {Root, NoIno}}
  <2>1. SUFFICES ASSUME F # {} PROVE FALSE
    OBVIOUS
  <2>2. PICK r \in F : \A t \in Paths : Len(t) < Len(r) => t \notin F
    <3>1. F \in SUBSET Paths
      OBVIOUS
    <3> HIDE DEF F
    <3> QED BY <2>1, <3>1, FirstPath
  <2>3. r \in Paths /\ FindInode(Zeroed, r) \notin {Root, NoIno}
    OBVIOUS
  <2>4. r # <<>>
    BY <2>3, RootPath
  <2>5. /\ Parent(r) \in Paths /\ Len(Parent(r)) < Len(r) /\ Filename(r) \in Name
        /\ FindInode(Zeroed, r) = FindInDir(Zeroed)[FindInode(Zeroed, Parent(r))][Filename(r)]
    BY <2>3, <2>4, ShorterParent, StepLemma
  <2>6. FindInode(Zeroed, Parent(r)) \in {Root, NoIno}
    BY <2>2, <2>5
  <2>7. FindInode(Zeroed, Parent(r)) \in Ino \cup {NoIno}
    BY <2>6, Disk DEF Root
  <2> QED BY <2>3, <2>5, <2>7, <1>2
<1>4. ASSUME NEW q \in Paths PROVE TreeOf(Zeroed)[q] = None
  <2>1. FindInode(Zeroed, q) \in Ino \cup {NoIno}
    BY <1>3, Disk DEF Root
  <2> QED BY <2>1, <1>1, TreeIs
<1>5. TreeOf(Zeroed) = [q \in Paths |-> TreeOf(Zeroed)[q]]
  BY TreeFun
<1> QED BY <1>4, <1>5 DEF T!Nowhere

LEMMA HandlerStep ==
  ASSUME TreeInv, status = "up", NEW p \in Paths, p # <<>>, NEW g, Tidy(g), Only(fs, g, p), Change(g),
         \/ T!Added(TreeOf(fs), TreeOf(g), p) \/ T!Deleted(TreeOf(fs), TreeOf(g), p)
         \/ /\ TreeOf(fs)[p] \in Seq(Byte) /\ TreeOf(g)[p] \in Seq(Byte)
            /\ T!Written(TreeOf(fs)[p], TreeOf(g)[p]) \/ T!Truncated(TreeOf(fs)[p], TreeOf(g)[p])
  PROVE  TreeInv' /\ [T!Next]_(T!vars)
<1>1. [T!Next]_(T!vars)
  BY CallStep
<1>2. FsInv'
  BY ChangeLemma DEF TreeInv, Tidy
<1>3. fs' = g /\ image' = image /\ imaged' = imaged /\ status' = status
  BY DEF Change
<1>4. Tidy(fs)' /\ (imaged = "whole" => Tidy(image))'
  BY <1>3 DEF TreeInv
<1> QED BY <1>1, <1>2, <1>4 DEF TreeInv

LEMMA AddTreeStep ==
  ASSUME TreeInv, NEW p \in Paths, NEW dir \in BOOLEAN, Add(p, dir)
  PROVE  TreeInv' /\ [T!Next]_(T!vars)
<1> DEFINE g == InsertDentry(InitInode(fs, dir), FindInode(fs, Parent(p)),
                             GetFreeBit(fs.ibits, Ino), Filename(p))
<1>1. status = "up" /\ p # <<>> /\ CanCreate(fs, p) /\ Change(g)
  BY DEF Add, Up
<1>2. Tidy(fs)
  BY <1>1 DEF TreeInv
<1>3. /\ Tidy(g) /\ Only(fs, g, p)
      /\ TreeOf(fs)[p] = None /\ TreeOf(fs)[Parent(p)] = Dir /\ TreeOf(g)[p] \in {Dir, <<>>}
  BY <1>1, <1>2, AddTree
<1> HIDE DEF g
<1>4. T!Added(TreeOf(fs), TreeOf(g), p)
  BY <1>3 DEF T!Added, Parent, Front, T!Front
<1> QED BY <1>1, <1>3, <1>4, HandlerStep

LEMMA WriteTreeStep ==
  ASSUME TreeInv, NEW p \in Paths, NEW buf \in Buffers, NEW offset \in Offsets,
         Write(p, buf, offset)
  PROVE  TreeInv' /\ [T!Next]_(T!vars)
<1> DEFINE ino == FindInode(fs, p)
           g == WriteFile(fs, ino, buf, offset)
<1>1. /\ status = "up" /\ ino # NoIno /\ ~fs.inodes[ino].dir
      /\ offset <= fs.inodes[ino].size /\ Len(buf) + offset <= MaxSize /\ buf # <<>>
      /\ Change(g)
  BY DEF Write, Up, IsFile
<1>2. offset + Len(buf) <= MaxSize
  <2>1. buf \in Seq(Byte) /\ offset \in Nat
    BY DiskAssumption
  <2> QED BY <2>1, <1>1, Disk, LenProperties
<1>3. Tidy(fs)
  BY <1>1 DEF TreeInv
<1> HIDE DEF ino
<1>4. /\ Tidy(g) /\ Only(fs, g, p) /\ p # <<>>
      /\ TreeOf(fs)[p] \in Seq(Byte) /\ TreeOf(g)[p] \in Seq(Byte)
      /\ T!Written(TreeOf(fs)[p], TreeOf(g)[p])
  BY <1>1, <1>2, <1>3, WriteTree DEF ino
<1> HIDE DEF g
<1> QED BY <1>1, <1>4, HandlerStep

LEMMA TruncateTreeStep ==
  ASSUME TreeInv, NEW p \in Paths, NEW length \in Lengths, Truncate(p, length)
  PROVE  TreeInv' /\ [T!Next]_(T!vars)
<1> DEFINE ino == FindInode(fs, p)
           size == fs.inodes[ino].size
           g == IF length > size
                THEN WriteFile(fs, ino, [m \in 1 .. (length - size) |-> Zero], size)
                ELSE ShrinkFile(fs, ino, length)
<1>1. /\ status = "up" /\ ino # NoIno /\ ~fs.inodes[ino].dir
      /\ length <= MaxSize /\ length # size /\ Change(g)
  BY DEF Truncate, Up, IsFile
<1>2. Tidy(fs)
  BY <1>1 DEF TreeInv
<1>3. /\ Tidy(g) /\ Only(fs, g, p) /\ p # <<>>
      /\ TreeOf(fs)[p] \in Seq(Byte) /\ TreeOf(g)[p] \in Seq(Byte)
      /\ T!Truncated(TreeOf(fs)[p], TreeOf(g)[p])
  BY <1>1, <1>2, TruncateTree
<1> HIDE DEF g
<1> QED BY <1>1, <1>3, HandlerStep

LEMMA UnlinkTreeStep ==
  ASSUME TreeInv, NEW p \in Paths, Unlink(p) \/ Rmdir(p)
  PROVE  TreeInv' /\ [T!Next]_(T!vars)
<1> DEFINE ino == FindInode(fs, p)
           g == UnlinkInode(fs, p, ino)
<1>1. status = "up" /\ Change(g)
  BY DEF Unlink, Rmdir, Up
<1>2. Tidy(fs)
  BY <1>1 DEF TreeInv
<1>3. ino # NoIno /\ ino # Root /\ (fs.inodes[ino].dir => fs.inodes[ino].size = 0)
  <2>1. CASE Unlink(p)
    <3>1. ino # NoIno /\ ~fs.inodes[ino].dir
      BY <2>1 DEF Unlink, IsFile
    <3>2. fs.inodes[Root].dir = TRUE
      BY <1>2 DEF Tidy, InOrder, NamedAs
    <3> QED BY <3>1, <3>2
  <2>2. CASE Rmdir(p)
    BY <2>2 DEF Rmdir
  <2> QED BY <2>1, <2>2
<1>4. /\ Tidy(g) /\ Only(fs, g, p) /\ p # <<>> /\ TreeOf(g)[p] = None
      /\ \A q \in Paths : q # <<>> /\ Parent(q) = p => TreeOf(fs)[q] = None
  BY <1>2, <1>3, UnlinkTree
<1> HIDE DEF g
<1>5. T!Deleted(TreeOf(fs), TreeOf(g), p)
  BY <1>4 DEF T!Deleted, Parent, Front, T!Front
<1> QED BY <1>1, <1>4, <1>5, HandlerStep

LEMMA EmptyLemma ==
  Tidy(InitInode(Zeroed, TRUE)) /\ TreeOf(InitInode(Zeroed, TRUE)) = T!Empty
<1> DEFINE g == InitInode(Zeroed, TRUE)
<1>1. InOrder(g) /\ \A d, n : ~Entry(g, d, n)
  BY MountLemma
<1> HIDE DEF g
<1>2. Tidy(g) /\ Good(g)
  BY <1>1 DEF Tidy, NamesApart, InOrder
<1>3. Root \in g.ibits /\ g.inodes[Root].dir = TRUE
  BY <1>1 DEF InOrder, NamedAs
<1>4. ASSUME NEW q \in Paths, q = <<>> PROVE TreeOf(g)[q] = Dir
  <2>1. FindInode(g, q) = Root
    BY <1>4, RootPath
  <2> QED BY <2>1, <1>2, <1>3, Disk, TreeIs
<1>5. ASSUME NEW q \in Paths, q # <<>> PROVE TreeOf(g)[q] = None
  <2>1. /\ Parent(q) \in Paths /\ Filename(q) \in Name
        /\ FindInode(g, q) = FindInDir(g)[FindInode(g, Parent(q))][Filename(q)]
    BY <1>5, ShorterParent, StepLemma
  <2>2. FindInode(g, Parent(q)) \in g.ibits \cup {NoIno}
    BY <2>1, <1>1, InOrderFinds
  <2>3. \A d, nm, j : ~Link(g, d, nm, j)
    BY <1>1 DEF Link
  <2>4. FindInode(g, q) = NoIno
    BY <2>1, <2>2, <2>3, <1>2, NoLinks
  <2> QED BY <2>4, <1>1, <1>2, FoundType, TreeIs
<1>6. TreeOf(g) = [q \in Paths |-> TreeOf(g)[q]]
  BY TreeFun
<1>7. TreeOf(g) = T!Empty
  BY <1>4, <1>5, <1>6 DEF T!Empty
<1> QED BY <1>2, <1>7 DEF g

\* Saving, the end of the process, and its start.
LEMMA ImageTreeStep ==
  ASSUME TreeInv, SaveOpen \/ SaveClose \/ Crash \/ Mount
  PROVE  TreeInv' /\ [T!Next]_(T!vars)
<1>1. FsInv'
  BY ImageStep DEF TreeInv
<1>2. T!Nowhere = [p \in Paths |-> None]
  BY DEF T!Nowhere
<1>3. CASE SaveOpen
  <2>1. /\ status = "up" /\ status' \in {"saving", "leaving"} /\ imaged' = "torn"
        /\ fs' = fs /\ imaged' # "whole"
    BY <1>3 DEF SaveOpen
  <2>2. TreeInv'
    BY <2>1, <1>1 DEF TreeInv
  <2>3. T!Save
    BY <2>1, <1>2 DEF T!Save
  <2> QED BY <2>2, <2>3 DEF T!Next
<1>4. CASE SaveClose
  <2>1. /\ status \in {"saving", "leaving"} /\ imaged' = "whole" /\ image' = fs /\ Tidy(fs)
    BY <1>4 DEF SaveClose, Save, TreeInv
  <2>2. CASE status = "saving"
    <3>1. status' = "up" /\ fs' = fs
      BY <2>2, <1>4 DEF SaveClose
    <3>2. TreeInv'
      BY <2>1, <3>1, <1>1 DEF TreeInv
    <3>3. T!Saved
      BY <2>1, <2>2, <3>1 DEF T!Saved
    <3> QED BY <3>2, <3>3 DEF T!Next
  <2>3. CASE status # "saving"
    <3>1. status' = "down" /\ fs' = Zeroed
      BY <2>3, <1>4 DEF SaveClose
    <3>2. TreeInv'
      BY <2>1, <3>1, <1>1 DEF TreeInv
    <3>3. T!Saved
      BY <2>1, <2>3, <3>1, NowhereLemma DEF T!Saved
    <3> QED BY <3>2, <3>3 DEF T!Next
  <2> QED BY <2>2, <2>3
<1>5. CASE Crash
  <2>1. status # "down" /\ status' = "down" /\ fs' = Zeroed /\ image' = image /\ imaged' = imaged
    BY <1>5 DEF Crash
  <2>2. TreeInv'
    BY <2>1, <1>1 DEF TreeInv
  <2>3. T!Crash
    BY <2>1, NowhereLemma DEF T!Crash
  <2> QED BY <2>2, <2>3 DEF T!Next
<1>6. CASE Mount
  <2>1. status = "down" /\ image' = image /\ imaged' = imaged
        /\ imaged \in {"none", "torn", "whole"}
    BY <1>6 DEF Mount, TreeInv, FsInv
  <2>2. CASE imaged = "none"
    <3>1. status' = "up" /\ fs' = InitInode(Zeroed, TRUE)
      BY <2>2, <1>6 DEF Mount
    <3>2. TreeInv'
      BY <2>1, <2>2, <3>1, <1>1, EmptyLemma DEF TreeInv
    <3>3. T!Mount
      BY <2>1, <2>2, <3>1, EmptyLemma DEF T!Mount
    <3> QED BY <3>2, <3>3 DEF T!Next
  <2>3. CASE imaged = "torn"
    <3>1. status' = "broken" /\ fs' = Zeroed
      BY <2>3, <1>6 DEF Mount
    <3>2. TreeInv'
      BY <2>1, <2>3, <3>1, <1>1 DEF TreeInv
    <3>3. T!Mount
      BY <2>1, <2>3, <3>1, NowhereLemma DEF T!Mount
    <3> QED BY <3>2, <3>3 DEF T!Next
  <2>4. CASE imaged = "whole"
    <3>1. status' = "up" /\ fs' = image
      BY <2>4, <1>6 DEF Mount
    <3>2. TreeInv'
      BY <2>1, <2>4, <3>1, <1>1 DEF TreeInv
    <3>3. T!Mount
      BY <2>1, <2>4, <3>1 DEF T!Mount
    <3> QED BY <3>2, <3>3 DEF T!Next
  <2> QED BY <2>1, <2>2, <2>3, <2>4
<1> QED BY <1>3, <1>4, <1>5, <1>6

LEMMA InitTree == Init => TreeInv /\ T!Init
<1> SUFFICES ASSUME Init PROVE TreeInv /\ T!Init
  OBVIOUS
<1>1. fs = Zeroed /\ imaged = "none" /\ status = "down"
  BY DEF Init
<1>2. TreeInv
  BY <1>1, InitFs DEF TreeInv
<1>3. T!Init
  BY <1>1, NowhereLemma DEF T!Init, T!Nowhere
<1> QED BY <1>2, <1>3

LEMMA NextTree == TreeInv /\ [Next]_vars => TreeInv' /\ [T!Next]_(T!vars)
<1> SUFFICES ASSUME TreeInv, [Next]_vars PROVE TreeInv' /\ [T!Next]_(T!vars)
  OBVIOUS
<1>1. ASSUME NEW path \in Paths, Create(path) \/ Mkdir(path)
      PROVE  TreeInv' /\ [T!Next]_(T!vars)
  BY <1>1, AddTreeStep DEF Create, Mkdir
<1>2. ASSUME NEW path \in Paths, Unlink(path) \/ Rmdir(path)
      PROVE  TreeInv' /\ [T!Next]_(T!vars)
  BY <1>2, UnlinkTreeStep
<1>3. ASSUME NEW path \in Paths, NEW buf \in Buffers, NEW offset \in Offsets,
             Write(path, buf, offset)
      PROVE  TreeInv' /\ [T!Next]_(T!vars)
  BY <1>3, WriteTreeStep
<1>4. ASSUME NEW path \in Paths, NEW length \in Lengths, Truncate(path, length)
      PROVE  TreeInv' /\ [T!Next]_(T!vars)
  BY <1>4, TruncateTreeStep
<1>5. CASE SaveOpen \/ SaveClose \/ Crash \/ Mount
  BY <1>5, ImageTreeStep
<1>6. CASE UNCHANGED vars
  <2>1. fs' = fs /\ image' = image /\ imaged' = imaged /\ status' = status /\ since' = since
    BY <1>6 DEF vars
  <2>2. FsInv'
    BY <1>6, NextFs DEF TreeInv
  <2>3. TreeInv'
    BY <2>1, <2>2 DEF TreeInv
  <2>4. UNCHANGED T!vars
    BY <2>1 DEF T!vars
  <2> QED BY <2>3, <2>4
<1> QED BY <1>1, <1>2, <1>3, <1>4, <1>5, <1>6 DEF Next

\* What users see is FileTree: each of the handlers of fisopfs.c, whatever goes
\* through inodes, blocks and entries, changes what its path names as it says and
\* nothing else, and fisopfs_init() brings back what the last save had written.
THEOREM TreeImplemented == Spec => ImplementsTree
<1>1. Spec => T!Init /\ [][T!Next]_(T!vars)
  BY InitTree, NextTree, PTL DEF Spec
<1> QED BY <1>1 DEF ImplementsTree, T!Spec
=============================================================================
