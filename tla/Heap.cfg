SPECIFICATION Spec
CONSTANTS
  Place = {p0, p1, p2}
  MaxBlocks = 2
  Small = 28
  Medium = 36
  Large = 40
  BlockHdr = 4
  RegionHdr = 4
  MinSize = 4
  Word = 64
  Requests = {0, 3, 9, 21}
  Builds = {"FIRST_FIT", "BEST_FIT"}
  Careful = TRUE
SYMMETRY Symmetry
INVARIANTS TypeOK BlocksTiled HeldInUse FreeCoalesced BlocksCounted
PROPERTIES ImplementsAllocator
