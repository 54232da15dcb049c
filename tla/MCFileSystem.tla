--------------------------- MODULE MCFileSystem ---------------------------
(* Small instances of FileSystem for TLC.                                   *)
EXTENDS FileSystem, TLC

CONSTANTS one

SomeBuffers == {<<one, one>>}

Symmetry == Permutations(Name)

\* What inodes that are not in use and cells past the end of a file hold is left
\* out: no handler reads them before it has written them.
Live(f) ==
  <<[i \in f.ibits |-> <<f.inodes[i], Contents(f, i)>>], f.ibits, f.dbits>>

\* TypeOK, which is always true, is there to have TLC evaluate all of fs.
View == <<TypeOK, Live(fs), Live(image), imaged, status, since>>
=============================================================================
