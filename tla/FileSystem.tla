----------------------------- MODULE FileSystem -----------------------------
(***************************************************************************)
(* The file system of src/fisopfs: inodes, two bitmaps, data blocks, the   *)
(* FUSE handlers and the image they are saved in.  A handler is one action,*)
(* as with one FUSE thread; the process may be killed at any moment.       *)
(*                                                                         *)
(* The unit of length is a byte of a file and an entry of a directory, so  *)
(* that a block holds BlockLen of either.  Times, owners, permissions and  *)
(* the counters of the superblock, which nothing reads but a printf, are   *)
(* left out.  Bits of the last word that N_DATA_BLOCKS / 32 loses are not  *)
(* in Block.                                                               *)
(***************************************************************************)
EXTENDS Naturals, FiniteSets, Sequences, SequencesExt

CONSTANTS
  NInodes, NBlocks,   \* N_INODES and the data blocks the bitmap covers
  BlockLen,           \* BLOCK_SIZE, N_DENTRY_PER_BLOCK
  MaxBlocks,          \* N_DATA_BLOCKS_PER_INODE
  MaxLevel,           \* MAX_LEVEL; a path with one more is undefined behaviour
  Name, Byte, Zero,
  Buffers, Offsets, Lengths,  \* what programs write, where, and truncate to
  MaxSince,           \* bound: changes after a save, until the next one or a crash
  NoIno, None, Dir

ASSUME DiskAssumption ==
  /\ NInodes \in Nat \ {0} /\ NBlocks \in Nat /\ BlockLen \in Nat \ {0}
  /\ MaxBlocks \in Nat \ {0} /\ MaxLevel \in Nat \ {0} /\ MaxSince \in Nat
  /\ Zero \in Byte /\ Buffers \subseteq Seq(Byte)
  /\ Offsets \subseteq Nat /\ Lengths \subseteq Nat

Ino == 0..(NInodes - 1)
Block == 0..(NBlocks - 1)
Root == 0
MaxSize == MaxBlocks * BlockLen
Paths == UNION {[1..n -> Name] : n \in 0..MaxLevel}

\* What stands for no inode, for nothing and for a directory is none of the others.
ASSUME ValueAssumption ==
  /\ NoIno \notin Ino /\ None # Dir
  /\ None \notin Seq(Byte) /\ Dir \notin Seq(Byte)

VARIABLES
  fs,       \* what load_file_system() and save_file_system() read and write:
            \* inodes, the used bits of the two bitmaps, and the data blocks
  image,    \* what the image holds
  imaged,   \* "none", "torn" (opened to be written) or "whole"
  status,   \* "down", "up", "saving" (in flush), "leaving" (in destroy), "broken"
  since     \* changes since the last save

vars == <<fs, image, imaged, status, since>>

\* The static variables of a process that starts.
Unused == [dir |-> FALSE, size |-> 0, blocks |-> <<>>]
Zeroed ==
  [inodes |-> [i \in Ino |-> Unused], ibits |-> {}, dbits |-> {},
   data |-> [b \in Block |-> [c \in 0..(BlockLen - 1) |-> Zero]]]

-----------------------------------------------------------------------------
(* bitmap.c                                                                *)

Smaller(a, b) == IF a <= b THEN a ELSE b
Larger(a, b) == IF a >= b THEN a ELSE b
Least(S) == CHOOSE x \in S : \A y \in S : x <= y
HasFree(bits, all) == all \ bits # {}
GetFreeBit(bits, all) == Least(all \ bits)

\* The n lowest bits that are free, or all of them if they are fewer.
FreeBits(bits, all, n) ==
  LET free == all \ bits
      before(x) == Cardinality({y \in free : y < x})
  IN  [i \in 1..Smaller(n, Cardinality(free)) |-> CHOOSE x \in free : before(x) = i - 1]

-----------------------------------------------------------------------------
(* Inodes, entries and paths.                                              *)

\* Where position i of an inode is, counting from 0, and what is there.
BlockAt(f, ino, i) == f.inodes[ino].blocks[i \div BlockLen + 1]
CellAt(f, ino, i) == f.data[BlockAt(f, ino, i)][i % BlockLen]

\* fisopfs_read() of a whole file.
Contents(f, ino) == [i \in 1..f.inodes[ino].size |-> CellAt(f, ino, i - 1)]

\* fisopfs_readdir(), without "." and "..".
Entries(f, ino) == Contents(f, ino)

FindInDir(f) ==
  [dir \in Ino \cup {NoIno} |-> [name \in Name |->
     IF dir = NoIno \/ ~f.inodes[dir].dir THEN NoIno
     ELSE LET at == {i \in 0..(f.inodes[dir].size - 1) : CellAt(f, dir, i)[1] = name}
          IN  IF at = {} THEN NoIno ELSE CellAt(f, dir, Least(at))[2]]]

FindInode(f, path) ==
  LET walk[n \in 0..Len(path)] ==
        IF n = 0 THEN Root ELSE FindInDir(f)[walk[n - 1]][path[n]]
  IN  walk[Len(path)]

\* split_path()
Parent(path) == Front(path)
Filename(path) == Last(path)

IsFile(f, path) ==
  FindInode(f, path) # NoIno /\ ~f.inodes[FindInode(f, path)].dir

\* Cells of inode ino from position first on become those of seq.
Store(f, ino, first, seq) ==
  LET in(b, c) == {i \in first..(first + Len(seq) - 1) :
                     BlockAt(f, ino, i) = b /\ i % BlockLen = c}
  IN  [f EXCEPT !.data = [b \in Block |-> [c \in 0..(BlockLen - 1) |->
         IF in(b, c) = {} THEN f.data[b][c]
         ELSE seq[(CHOOSE i \in in(b, c) : TRUE) - first + 1]]]]

-----------------------------------------------------------------------------
(* What handlers are made of.                                              *)

\* init_inode(), when a bit is free.  Whatever it held stays in the array.
InitInode(f, dir) ==
  LET ino == GetFreeBit(f.ibits, Ino)
  IN  [f EXCEPT !.ibits = @ \cup {ino},
                !.inodes[ino] = [dir |-> dir, size |-> 0, blocks |-> <<>>]]

\* Up to n blocks more for an inode, one at a time while there are any.
GrowBlocks(f, ino, n) ==
  LET got == FreeBits(f.dbits, Block, n)
  IN  [f EXCEPT !.dbits = @ \cup ToSet(got), !.inodes[ino].blocks = @ \o got]

\* insert_dentry(); callers do not look at what it returns.
InsertDentry(f, dir, ino, name) ==
  LET d == f.inodes[dir]
      full == d.size = Len(d.blocks) * BlockLen
      grown == IF full THEN GrowBlocks(f, dir, 1) ELSE f
  IN  IF full /\ ~HasFree(f.dbits, Block) THEN f
      ELSE [Store(grown, dir, d.size, <<<<name, ino>>>>)
              EXCEPT !.inodes[dir].size = @ + 1]

\* write_file(), after its checks: block number (size + offset) / BLOCK_SIZE is
\* the last, even when not a byte goes there.  With MaxBlocks of them it is
\* data_blocks[N_DATA_BLOCKS_PER_INODE], the padding before atim.
WriteFile(f, ino, buf, offset) ==
  LET last == (offset + Len(buf)) \div BlockLen
      have == Len(f.inodes[ino].blocks)
      grown == GrowBlocks(f, ino, IF last + 1 > have THEN last + 1 - have ELSE 0)
      room == Len(grown.inodes[ino].blocks) * BlockLen - offset
      part == SubSeq(buf, 1, Smaller(Len(buf), room))
  IN  [Store(grown, ino, offset, part)
         EXCEPT !.inodes[ino].size = Larger(@, offset + Len(part))]

\* Seeded fault: a block that is still in use in part is given back.
ShrinkFileDown(f, ino, length) ==
  LET keep == length \div BlockLen
      blocks == f.inodes[ino].blocks
  IN  IF f.inodes[ino].size <= length THEN f
      ELSE [f EXCEPT !.dbits = @ \ {blocks[i] : i \in (keep + 1)..Len(blocks)},
                     !.inodes[ino].size = length]

\* shrink_file(): the blocks after the one that length ends in are given back.
ShrinkFile(f, ino, length) ==
  LET keep == length \div BlockLen + (IF length % BlockLen > 0 THEN 1 ELSE 0)
      blocks == f.inodes[ino].blocks
  IN  IF f.inodes[ino].dir \/ f.inodes[ino].size <= length THEN f
      ELSE [f EXCEPT !.dbits = @ \ {blocks[i] : i \in (keep + 1)..Len(blocks)},
                     !.inodes[ino].blocks = SubSeq(@, 1, keep),
                     !.inodes[ino].size = length]

\* Seeded fault: entries move down within their block only.
RemoveDentryBlock(f, dir, k) ==
  LET n == f.inodes[dir].size
      moved == [i \in k..(n - 1) |->
                  CellAt(f, dir, IF i % BlockLen = BlockLen - 1 \/ i = n - 1 THEN i ELSE i + 1)]
  IN  [Store(f, dir, k, [i \in 1..(n - k) |-> moved[k + i - 1]])
         EXCEPT !.inodes[dir].size = n - 1]

\* The loops of unlink_inode(): the entries after number k move down, and the last
\* block is given back when it holds none.
RemoveDentry(f, dir, k) ==
  LET n == f.inodes[dir].size
      blocks == f.inodes[dir].blocks
      shifted == [Store(f, dir, k, [i \in 1..(n - 1 - k) |-> CellAt(f, dir, k + i)])
                    EXCEPT !.inodes[dir].size = n - 1]
  IN  IF (n - 1) % BlockLen # 0 THEN shifted
      ELSE [shifted EXCEPT !.dbits = @ \ {blocks[Len(blocks)]},
                           !.inodes[dir].blocks = Front(@)]

\* unlink_inode() of a file, or of a directory without entries.
UnlinkInode(f, path, ino) ==
  LET dir == FindInode(f, Parent(path))
      at == {i \in 0..(f.inodes[dir].size - 1) : CellAt(f, dir, i) = <<Filename(path), ino>>}
      left == RemoveDentry(f, dir, Least(at))
  IN  IF at = {} THEN f
      ELSE [ShrinkFile(left, ino, 0) EXCEPT !.ibits = @ \ {ino}]

-----------------------------------------------------------------------------
Init ==
  /\ fs = Zeroed /\ image = Zeroed
  /\ imaged = "none" /\ status = "down" /\ since = 0

Up == status = "up" /\ (imaged = "none" \/ since < MaxSince)

\* The end of a handler that leaves file system f.
Change(f) ==
  /\ fs' = f
  /\ since' = IF imaged = "none" THEN 0 ELSE since + 1
  /\ UNCHANGED <<image, imaged, status>>

\* Seeded fault: whether a data block is free is not asked.
CanCreateFull(f, path) ==
  /\ FindInode(f, path) = NoIno
  /\ FindInode(f, Parent(path)) # NoIno
  /\ f.inodes[FindInode(f, Parent(path))].dir
  /\ f.inodes[FindInode(f, Parent(path))].size < MaxSize
  /\ HasFree(f.ibits, Ino)

\* The checks of fisopfs_create() and fisopfs_mkdir().
CanCreate(f, path) ==
  /\ HasFree(f.dbits, Block)
  /\ FindInode(f, path) = NoIno
  /\ FindInode(f, Parent(path)) # NoIno
  /\ f.inodes[FindInode(f, Parent(path))].dir
  /\ f.inodes[FindInode(f, Parent(path))].size < MaxSize
  /\ HasFree(f.ibits, Ino)

Add(path, dir) ==
  /\ Up /\ path # <<>> /\ CanCreate(fs, path)
  /\ Change(InsertDentry(InitInode(fs, dir), FindInode(fs, Parent(path)),
                         GetFreeBit(fs.ibits, Ino), Filename(path)))

Create(path) == Add(path, FALSE)
Mkdir(path) == Add(path, TRUE)

Write(path, buf, offset) ==
  /\ Up /\ IsFile(fs, path)
  /\ LET ino == FindInode(fs, path)
     IN  /\ offset <= fs.inodes[ino].size
         /\ Len(buf) + offset <= MaxSize /\ buf # <<>>
         /\ Change(WriteFile(fs, ino, buf, offset))

\* A file that grows is written zeroes at its end, as many as there is room for.
Truncate(path, length) ==
  /\ Up /\ IsFile(fs, path) /\ length <= MaxSize
  /\ LET ino == FindInode(fs, path)
         size == fs.inodes[ino].size
     IN  /\ length # size
         /\ Change(IF length > size
                   THEN WriteFile(fs, ino, [i \in 1..(length - size) |-> Zero], size)
                   ELSE ShrinkFile(fs, ino, length))

Unlink(path) ==
  /\ Up /\ IsFile(fs, path)
  /\ Change(UnlinkInode(fs, path, FindInode(fs, path)))

Rmdir(path) ==
  /\ Up
  /\ LET ino == FindInode(fs, path)
     IN  /\ ino # NoIno /\ ino # Root /\ fs.inodes[ino].dir
         /\ fs.inodes[ino].size = 0
         /\ Change(UnlinkInode(fs, path, ino))

-----------------------------------------------------------------------------
(* The image.                                                              *)

\* fopen(file_name, "w+") of fisopfs_flush() or of fisopfs_destroy().
SaveOpen ==
  /\ status = "up"
  /\ status' \in {"saving", "leaving"}
  /\ imaged' = "torn" /\ image' = Zeroed
  /\ UNCHANGED <<fs, since>>

\* Seeded fault: the data bitmap is not written.
SaveBits == [fs EXCEPT !.dbits = {}]

\* save_file_system()
Save == fs

SaveClose ==
  /\ status \in {"saving", "leaving"}
  /\ imaged' = "whole" /\ image' = Save /\ since' = 0
  /\ IF status = "saving" THEN status' = "up" /\ UNCHANGED fs
     ELSE status' = "down" /\ fs' = Zeroed

\* The process is killed, or the machine stops.
Crash ==
  /\ status # "down" /\ status' = "down" /\ fs' = Zeroed /\ since' = 0
  /\ UNCHANGED <<image, imaged>>

\* fisopfs_init().  A file that is cut short leaves the rest of the variables
\* zero: find_inode() fails its assertion, or directories have empty entries.
Mount ==
  /\ status = "down" /\ since' = 0
  /\ CASE imaged = "none" -> status' = "up" /\ fs' = InitInode(Zeroed, TRUE)
       [] imaged = "torn" -> status' = "broken" /\ fs' = Zeroed
       [] imaged = "whole" -> status' = "up" /\ fs' = image
  /\ UNCHANGED <<image, imaged>>

Next ==
  \/ \E path \in Paths :
       \/ Create(path) \/ Mkdir(path) \/ Unlink(path) \/ Rmdir(path)
       \/ \E buf \in Buffers, offset \in Offsets : Write(path, buf, offset)
       \/ \E length \in Lengths : Truncate(path, length)
  \/ SaveOpen \/ SaveClose \/ Crash \/ Mount

Spec == Init /\ [][Next]_vars

-----------------------------------------------------------------------------
\* Bitmaps, inodes and blocks, and no byte read as an entry or the reverse: what the
\* inodes in use hold is of their kind.
DiskType ==
  [inodes : [Ino -> [dir : BOOLEAN, size : 0..MaxSize, blocks : Seq(Block)]],
   ibits : SUBSET Ino, dbits : SUBSET Block,
   data : [Block -> [0..(BlockLen - 1) -> Byte \cup (Name \X Ino)]]]
TypeOK ==
  /\ fs \in DiskType /\ image \in DiskType
  /\ \A i \in fs.ibits : \A n \in 0..(fs.inodes[i].size - 1) :
       CellAt(fs, i, n) \in (IF fs.inodes[i].dir THEN Name \X Ino ELSE Byte)
  /\ imaged \in {"none", "torn", "whole"} /\ since \in Nat
  /\ status \in {"down", "up", "saving", "leaving", "broken"}

\* The inodes in use are the root and those that one entry of one directory names,
\* and no entry names any other.
Names(i) ==
  {x \in fs.ibits \X (0..(MaxSize - 1)) :
     /\ fs.inodes[x[1]].dir /\ x[2] < fs.inodes[x[1]].size
     /\ CellAt(fs, x[1], x[2])[2] = i}
InodesExact ==
  status \in {"up", "saving", "leaving"} =>
    /\ fs.inodes[Root].dir /\ Root \in fs.ibits
    /\ \A i \in Ino : Cardinality(Names(i)) = (IF i \in fs.ibits \ {Root} THEN 1 ELSE 0)

\* A data block is in use when it belongs to an inode in use, and to one place of
\* one inode only: nothing is lost, and nothing is given to two files.
Places(b) ==
  {x \in fs.ibits \X (1..(MaxBlocks + 1)) :
     x[2] <= Len(fs.inodes[x[1]].blocks) /\ fs.inodes[x[1]].blocks[x[2]] = b}
BlocksExact ==
  \A b \in Block : Cardinality(Places(b)) = (IF b \in fs.dbits THEN 1 ELSE 0)

\* A file has the blocks its size needs and at most the one more that a write which
\* ends on a block boundary takes, the one after the last place included.
BlocksFit ==
  \A i \in fs.ibits :
    LET used == Len(fs.inodes[i].blocks)
    IN  /\ fs.inodes[i].size <= used * BlockLen
        /\ used <= fs.inodes[i].size \div BlockLen + 1
        /\ fs.inodes[i].dir \/ fs.inodes[i].size = 0 => (fs.inodes[i].size + BlockLen - 1) \div BlockLen = used
        /\ used <= MaxBlocks + 1

-----------------------------------------------------------------------------
Seen(f) ==
  [ino \in Ino \cup {NoIno} |->
     IF ino \notin f.ibits THEN None
     ELSE IF f.inodes[ino].dir THEN Dir ELSE Contents(f, ino)]
TreeOf(f) == [p \in Paths |-> Seen(f)[FindInode(f, p)]]

T == INSTANCE FileTree WITH
  tree <- TreeOf(fs), image <- imaged, status <- status,
  saved <- IF imaged = "whole" THEN TreeOf(image) ELSE [p \in Paths |-> None]

\* Whatever blocks and entries go through, users see a tree of files in which each
\* call changes what its path names, and a restart brings back the last save.
ImplementsTree == T!Spec
=============================================================================
