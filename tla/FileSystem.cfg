SPECIFICATION Spec
CONSTANTS
  NInodes = 4
  NBlocks = 4
  BlockLen = 2
  MaxBlocks = 2
  MaxLevel = 2
  Name = {a, b, c}
  one = one
  Zero = zero
  Byte = {zero, one}
  Buffers <- SomeBuffers
  Offsets = {1}
  Lengths = {1, 4}
  MaxSince = 1
  NoIno = NoIno
  None = None
  Dir = Dir
VIEW View
SYMMETRY Symmetry
INVARIANTS InodesExact BlocksExact BlocksFit
PROPERTIES ImplementsTree
